---- MODULE Spec2Model ----
(***************************************************************************)
(* A model of go-slogs: the attribute/group chain (attrs.go), the handler  *)
(* middleware and its composition function (handler.go), the context      *)
(* attribute store (context.go), the logger options (option.go) and the    *)
(* broadcasting handler (multi_handler.go).                                *)
(*                                                                         *)
(* Go slices are modelled as they are: a slice is a view (array, len, cap) *)
(* of a backing array on a heap, append writes in place when the capacity  *)
(* allows and allocates otherwise, so that two slices may share storage.   *)
(***************************************************************************)
EXTENDS Integers, Sequences, FiniteSets, TLC

VARIABLES
    arrays,     \* heap of []slog.Attr backing arrays: arrays[i] has Len = capacity
    strArrays,  \* heap of []string backing arrays (HandlerContext.Names)
    nodes,      \* heap of GroupOrAttrs nodes
    handlers,   \* heap of Handler objects (with their HandlerContext)
    ctxs,       \* context.Context values; ctxs[1] is context.Background()
    held,       \* slices the caller passed to WithAttrs and still holds
    hist,       \* history: per handler, the derivation calls that built it, by value
    chist,      \* history: per context, the attributes its Prepend/Append calls were given
    enabled,    \* the last Handler.Enabled call and its result
    out,        \* what the next handler received from the last Handle call
    emis,       \* concurrent emissions: each Handle call's position and locals
    sinks,      \* the downstream handlers a multiHandler broadcasts to
    build,      \* which of the two versions of a source file the program is built from
    multis,     \* the handlers the MultiHandler, WithAttrs and WithGroup calls returned
    mhist,      \* history: per entry of multis, the call that returned it
    rec,        \* the slog.Record a caller of multiHandler.Handle builds
    calls,      \* the Handle calls the sinks received, in order
    ret,        \* what the last multiHandler.Handle returned
    converted,  \* an ArgsToAttrSlice call: its arguments and what it returned
    made,       \* the last NewHandler, NewHandlerWithOptions or New call and its outcome
    loggers,    \* heap of Logger objects
    logcall,    \* the Logger and SugaredLogger emissions made so far and the last one
    fwd,        \* the last Handle call on a record: the caller's record, what next received
    gos,        \* goroutines calling multiHandler.Handle: position, locals, result
    stdlog,     \* the standard library's logger and the restore functions returned
    derived     \* the last derivation of a chain node or of a Logger: receiver and result

vars ==
    <<arrays, strArrays, nodes, handlers, ctxs, held, hist, chist, enabled, out, emis, sinks,
      build, multis, mhist, rec, calls, ret, converted, made, loggers, logcall, fwd, gos, stdlog, derived>>

\* ---------------------------------------------------------------- bounds

MaxHandlers == 4
MaxCtxs == 3
MaxCtxTree == 4
MaxWrites == 1
MaxEmis == 2
MaxSinks == 3
MaxMultis == 1
MaxRecAttrs == 8
MaxBuilt == 2
MaxBranches == 3
MaxArgs == 3
MaxLoggers == 2
MaxLogs == 2
MaxNodes == 3
MaxGos == 2
MaxRedirects == 2
MaxDerivations == 3

\* ---------------------------------------------------------------- slog values

\* slog.Level values
LevelDebug == -4
LevelInfo == 0
LevelWarn == 4
LevelError == 8
Levels == {LevelDebug, LevelInfo, LevelWarn, LevelError}

badKey == "!BADKEY"

\* The two versions of multi_handler.go: multiHandler is a struct holding the
\* list of sinks, or it is the list. The two versions of the handler: its
\* context holds a list of names, or one name.
BuildStruct == "multi_handler.go:18"
BuildSlice == "multi_handler.go:132"
BuildNames == "handler.go:26"
BuildName == "part_000:572"

NilSlice == [arr |-> 0, len |-> 0, cap |-> 0]

\* slog.Attr: a key and a slog.Value, which is a string, or a group that holds
\* (shares) the slice it was built from.
\* Sub is the key of an Attr held as a plain (KindAny) value, "" otherwise.
StringAttr(k, v) == [Key |-> k, Kind |-> "String", Str |-> v, Sub |-> "", Grp |-> NilSlice]
GroupAttr(k, s) == [Key |-> k, Kind |-> "Group", Str |-> "", Sub |-> "", Grp |-> s]
ZeroAttr == [Key |-> "", Kind |-> "Any", Str |-> "", Sub |-> "", Grp |-> NilSlice]

isEmptyGroup(a) == a.Kind = "Group" /\ a.Grp.len = 0

\* ---------------------------------------------------------------- Go slices

Max(a, b) == IF a > b THEN a ELSE b

\* The elements a slice shows: the first len elements of its backing array.
SliceRead(H, s) == IF s.len = 0 THEN <<>> ELSE SubSeq(H[s.arr], 1, s.len)

Zeros(n, z) == [i \in 1..n |-> z]

\* runtime.nextslicecap for capacities below 256; the allocator's size classes
\* round nothing up for the element sizes and lengths of this model.
GrowCap(oldCap, newLen) == IF newLen > 2 * oldCap THEN newLen ELSE 2 * oldCap

\* append(s, xs...): in place when the capacity allows, a new array otherwise.
GoAppendZ(H, s, xs, z) ==
    LET n == s.len + Len(xs) IN
    IF Len(xs) = 0 THEN [heap |-> H, slice |-> s]
    ELSE IF n <= s.cap
    THEN [heap |-> [H EXCEPT ![s.arr] =
                       [i \in 1..Len(@) |->
                           IF i > s.len /\ i <= n THEN xs[i - s.len] ELSE @[i]]],
          slice |-> [s EXCEPT !.len = n]]
    ELSE LET c == GrowCap(s.cap, n) IN
         [heap |-> Append(H, SliceRead(H, s) \o xs \o Zeros(c - n, z)),
          slice |-> [arr |-> Len(H) + 1, len |-> n, cap |-> c]]

GoAppend(H, s, xs) == GoAppendZ(H, s, xs, ZeroAttr)

\* slices.Clip(s): s[:len(s):len(s)], the same array with no spare capacity.
Clip(s) == [s EXCEPT !.cap = s.len]

\* A slice literal []T{xs...}, or make+copy: a new array of exactly Len(xs).
MakeSlice(H, xs) ==
    IF Len(xs) = 0 THEN [heap |-> H, slice |-> NilSlice]
    ELSE [heap |-> Append(H, xs), slice |-> [arr |-> Len(H) + 1, len |-> Len(xs), cap |-> Len(xs)]]

\* Garbage collection after a call that started with n0 arrays and returned
\* slice s: the arrays the call allocated and outgrew are dropped, the writes it
\* made to older arrays stay.
KeepLast(n0, H2, s) ==
    IF s.arr > n0
    THEN [heap |-> Append(SubSeq(H2, 1, n0), H2[s.arr]), slice |-> [s EXCEPT !.arr = n0 + 1]]
    ELSE [heap |-> SubSeq(H2, 1, n0), slice |-> s]

\* The elements of a slice with every group value read through, as a sink
\* formatting the record reads them.
RECURSIVE DeepVals(_, _)
DeepVals(H, xs) ==
    [i \in 1..Len(xs) |->
        IF xs[i].Kind = "Group"
        THEN [Key |-> xs[i].Key, Kind |-> "Group", Str |-> "", Sub |-> "",
              Grp |-> DeepVals(H, SliceRead(H, xs[i].Grp))]
        ELSE [Key |-> xs[i].Key, Kind |-> xs[i].Kind, Str |-> xs[i].Str, Sub |-> xs[i].Sub,
              Grp |-> <<>>]]

DeepRead(H, s) == DeepVals(H, SliceRead(H, s))

\* ---------------------------------------------------------------- slog.Record

\* A slog.Record keeps its first nAttrsInline attributes in an array inside the
\* struct (front) and the others in a slice (back). Copying the struct copies
\* front and shares back's array.
nAttrsInline == 5

EmptyRecord == [front |-> <<>>, back |-> NilSlice]

BugAttr == StringAttr("!BUG", "AddAttrs unsafely called on copy of Record made without using Record.Clone")

\* slices.Grow(s, n): room for n more elements, the length unchanged.
SlicesGrow(H, s, n) ==
    IF n - (s.cap - s.len) > 0
    THEN LET a == GoAppend(H, [s EXCEPT !.len = s.cap], Zeros(n - (s.cap - s.len), ZeroAttr))
         IN [heap |-> a.heap, slice |-> [a.slice EXCEPT !.len = s.len]]
    ELSE [heap |-> H, slice |-> s]

\* Record.AddAttrs(attrs...) for attributes that are no empty groups: front is
\* filled first; a back whose next free element is already written was shared
\* by a plain copy of the record, and is then left behind with a !BUG marker.
RecordAddAttrs(H, r, attrs) ==
    LET k == IF Len(attrs) < nAttrsInline - Len(r.front) THEN Len(attrs)
             ELSE nAttrsInline - Len(r.front)
        rest == SubSeq(attrs, k + 1, Len(attrs))
        shared == r.back.cap > r.back.len /\ H[r.back.arr][r.back.len + 1] # ZeroAttr
        b1 == IF shared THEN GoAppend(H, Clip(r.back), <<BugAttr>>)
              ELSE [heap |-> H, slice |-> r.back]
        b2 == SlicesGrow(b1.heap, b1.slice, Len(rest))
        b3 == GoAppend(b2.heap, b2.slice, rest)
    IN [heap |-> b3.heap,
        rec |-> [front |-> r.front \o SubSeq(attrs, 1, k), back |-> b3.slice]]

\* Mutant: Clone returns a plain copy of the record.
RecordCloneCopy(r) == r

\* Record.Clone(): a copy whose back has no spare capacity.
RecordClone(r) == [r EXCEPT !.back = Clip(@)]

\* Record.Attrs: the attributes of a record, in order.
RecordRead(H, r) == DeepVals(H, r.front \o SliceRead(H, r.back))

\* ---------------------------------------------------------------- internal/attr

\* An argument of a variadic call: a string, an int or a slog.Attr (K: S).
StrArg(x) == [T |-> "string", S |-> x, K |-> ""]
IntArg(x) == [T |-> "int", S |-> x, K |-> ""]
AttrArg(k, v) == [T |-> "attr", S |-> v, K |-> k]

\* slog.Any(key, value): the value's kind follows the argument's dynamic type.
SlogAny(k, x) ==
    [Key |-> k,
     Kind |-> IF x.T = "string" THEN "String" ELSE IF x.T = "int" THEN "Int64" ELSE "Any",
     Str |-> x.S, Sub |-> x.K, Grp |-> NilSlice]

\* Mutant: a lone trailing string is used as a key with an empty value.
ArgsToAttrLoneKey(args) ==
    LET x == args[1] IN
    IF x.T = "string"
    THEN IF Len(args) = 1
         THEN [attr |-> StringAttr(x.S, ""), rest |-> <<>>]
         ELSE [attr |-> SlogAny(x.S, args[2]), rest |-> SubSeq(args, 3, Len(args))]
    ELSE IF x.T = "attr"
    THEN [attr |-> StringAttr(x.K, x.S), rest |-> Tail(args)]
    ELSE [attr |-> SlogAny(badKey, x), rest |-> Tail(args)]

ArgsToAttr(args) ==
    LET x == args[1] IN
    IF x.T = "string"
    THEN IF Len(args) = 1
         THEN [attr |-> StringAttr(badKey, x.S), rest |-> <<>>]
         ELSE [attr |-> SlogAny(x.S, args[2]), rest |-> SubSeq(args, 3, Len(args))]
    ELSE IF x.T = "attr"
    THEN [attr |-> StringAttr(x.K, x.S), rest |-> Tail(args)]
    ELSE [attr |-> SlogAny(badKey, x), rest |-> Tail(args)]

RECURSIVE ArgsLoop(_, _, _)
ArgsLoop(H, attrs, args) ==
    IF Len(args) = 0 THEN [heap |-> H, slice |-> attrs]
    ELSE LET r == ArgsToAttr(args)
             a == GoAppend(H, attrs, <<r.attr>>)
         IN ArgsLoop(a.heap, a.slice, r.rest)

\* ArgsToAttrSlice grows a nil slice one append at a time.
ArgsToAttrSlice(H, args) ==
    LET r == ArgsLoop(H, NilSlice, args) IN KeepLast(Len(H), r.heap, r.slice)

\* ---------------------------------------------------------------- attrs.go

NilNode == 0

\* Mutant: WithGroup writes the name into the receiver when there is one.
GroupOrAttrsWithGroupInPlace(N, g, name) ==
    IF name = "" THEN [nodes |-> N, node |-> g]
    ELSE IF g # NilNode THEN [nodes |-> [N EXCEPT ![g].group = name], node |-> g]
    ELSE [nodes |-> Append(N, [group |-> name, attrs |-> NilSlice, next |-> g]),
          node |-> Len(N) + 1]

GroupOrAttrsWithGroup(N, g, name) ==
    IF name = "" THEN [nodes |-> N, node |-> g]
    ELSE [nodes |-> Append(N, [group |-> name, attrs |-> NilSlice, next |-> g]),
          node |-> Len(N) + 1]

\* Mutant: WithAttrs makes a node also for an empty list.
GroupOrAttrsWithAttrsAlways(N, g, attrs) ==
    [nodes |-> Append(N, [group |-> "", attrs |-> attrs, next |-> g]), node |-> Len(N) + 1]

GroupOrAttrsWithAttrs(N, g, attrs) ==
    IF attrs.len = 0 THEN [nodes |-> N, node |-> g]
    ELSE [nodes |-> Append(N, [group |-> "", attrs |-> attrs, next |-> g]),
          node |-> Len(N) + 1]

\* ---------------------------------------------------------------- context.go

Background == 1
NilCtx == 0

\* ctx.Value(key): the nearest value stored under key, walking to the root.
RECURSIVE CtxValue(_, _, _)
CtxValue(C, c, key) ==
    IF c = 0 THEN [ok |-> FALSE, val |-> NilSlice]
    ELSE IF C[c].key = key THEN [ok |-> TRUE, val |-> C[c].val]
    ELSE CtxValue(C, C[c].parent, key)

WithValue(C, parent, key, val) == Append(C, [parent |-> parent, key |-> key, val |-> val])

\* Prepend and Append differ only in the key.
AddToCtx(H, C, parent0, key, args) ==
    LET parent == IF parent0 = NilCtx THEN Background ELSE parent0
        v == CtxValue(C, parent, key)
        conv == ArgsToAttrSlice(H, args)
    IN IF v.ok
       THEN LET a == GoAppend(H, Clip(v.val), SliceRead(conv.heap, conv.slice))
            IN [heap |-> a.heap, ctxs |-> WithValue(C, parent, key, a.slice)]
       ELSE [heap |-> conv.heap, ctxs |-> WithValue(C, parent, key, conv.slice)]

\* Mutant: Prepend appends to the stored list without slices.Clip.
PrependNoClip(H, C, parent0, args) ==
    LET parent == IF parent0 = NilCtx THEN Background ELSE parent0
        v == CtxValue(C, parent, "prependKey")
        conv == ArgsToAttrSlice(H, args)
    IN IF v.ok
       THEN LET a == GoAppend(H, v.val, SliceRead(conv.heap, conv.slice))
            IN [heap |-> a.heap, ctxs |-> WithValue(C, parent, "prependKey", a.slice)]
       ELSE [heap |-> conv.heap, ctxs |-> WithValue(C, parent, "prependKey", conv.slice)]

Prepend(H, C, parent, args) == AddToCtx(H, C, parent, "prependKey", args)

\* Mutant: Append stores its list under the key Prepend uses.
AppendUnderPrependKey(H, C, parent, args) == AddToCtx(H, C, parent, "prependKey", args)

Append_(H, C, parent, args) == AddToCtx(H, C, parent, "appendKey", args)

ExtractPrepended(C, c) == CtxValue(C, c, "prependKey").val

ExtractAppended(C, c) == CtxValue(C, c, "appendKey").val

\* ---------------------------------------------------------------- log/slog

NotEmptyGroup(a) == ~isEmptyGroup(a)

\* slog.GroupValue(as...): empty groups are removed (into a new array when
\* there are any); the value holds the slice it was given, without capacity.
GroupValue(H, as) ==
    LET xs == SliceRead(H, as)
        kept == SelectSeq(xs, NotEmptyGroup)
    IN IF Len(kept) < Len(xs)
       THEN MakeSlice(H, kept)
       ELSE [heap |-> H, slice |-> Clip(as)]

\* strings.Join(names, "."), as the sequence of its pieces.
RECURSIVE JoinDots(_)
JoinDots(names) ==
    IF Len(names) = 0 THEN <<>>
    ELSE IF Len(names) = 1 THEN names
    ELSE <<names[1], ".">> \o JoinDots(Tail(names))

\* ---------------------------------------------------------------- handler.go

\* The loop of DefaultHandleFunc over the chain, newest node first.
RECURSIVE ChainLoop(_, _, _, _)

\* Mutant: a node's attributes are put behind the accumulated ones.
ChainLoopBehind(H, N, g, attrs) ==
    IF g = NilNode THEN [heap |-> H, slice |-> attrs]
    ELSE IF N[g].group # ""
    THEN LET gv == GroupValue(H, attrs)
             lit == MakeSlice(gv.heap, <<GroupAttr(N[g].group, gv.slice)>>)
         IN ChainLoop(lit.heap, N, N[g].next, lit.slice)
    ELSE LET a == GoAppend(H, Clip(attrs), SliceRead(H, N[g].attrs))
         IN ChainLoop(a.heap, N, N[g].next, a.slice)

ChainLoop(H, N, g, attrs) ==
    IF g = NilNode THEN [heap |-> H, slice |-> attrs]
    ELSE IF N[g].group # ""
    THEN LET gv == GroupValue(H, attrs)
             lit == MakeSlice(gv.heap, <<GroupAttr(N[g].group, gv.slice)>>)
         IN ChainLoop(lit.heap, N, N[g].next, lit.slice)
    ELSE LET a == GoAppend(H, Clip(N[g].attrs), SliceRead(H, attrs))
         IN ChainLoop(a.heap, N, N[g].next, a.slice)

\* Mutant: the prepended attributes are added before the chain is walked.
DefaultHandleFuncPrependFirst(H, SA, N, C, ctx, hc, rm, attrs0) ==
    LET appended == ExtractAppended(C, ctx)
        a1 == GoAppend(H, attrs0, SliceRead(H, appended))
        prepended == ExtractPrepended(C, ctx)
        a2 == GoAppend(a1.heap, Clip(prepended), SliceRead(a1.heap, a1.slice))
        a3 == ChainLoop(a2.heap, N, hc.Attrs, a2.slice)
    IN [heap |-> a3.heap, msg |-> rm, attrs |-> a3.slice]

\* Mutant: the appended attributes are added after the chain is walked.
DefaultHandleFuncAppendLast(H, SA, N, C, ctx, hc, rm, attrs0) ==
    LET a1 == ChainLoop(H, N, hc.Attrs, attrs0)
        appended == ExtractAppended(C, ctx)
        a2 == GoAppend(a1.heap, Clip(a1.slice), SliceRead(a1.heap, appended))
        prepended == ExtractPrepended(C, ctx)
        a3 == GoAppend(a2.heap, Clip(prepended), SliceRead(a2.heap, a2.slice))
    IN [heap |-> a3.heap, msg |-> rm, attrs |-> a3.slice]

\* Mutant: the prefix is added whether or not there is a name.
DefaultHandleFuncAlwaysPrefix(H, SA, N, C, ctx, hc, rm, attrs0) ==
    LET appended == ExtractAppended(C, ctx)
        a1 == GoAppend(H, attrs0, SliceRead(H, appended))
        a2 == ChainLoop(a1.heap, N, hc.Attrs, a1.slice)
        prepended == ExtractPrepended(C, ctx)
        a3 == GoAppend(a2.heap, prepended, SliceRead(a2.heap, a2.slice))
        names == SliceRead(SA, hc.Names)
    IN [heap |-> a3.heap,
        msg |-> <<"[">> \o JoinDots(names) \o <<"] ">> \o rm,
        attrs |-> a3.slice]

\* A message is the sequence of the strings it is concatenated from.
DefaultHandleFunc(H, SA, N, C, ctx, hc, rm, attrs0) ==
    LET appended == ExtractAppended(C, ctx)
        a1 == GoAppend(H, attrs0, SliceRead(H, appended))
        a2 == ChainLoop(a1.heap, N, hc.Attrs, a1.slice)
        prepended == ExtractPrepended(C, ctx)
        a3 == GoAppend(a2.heap, prepended, SliceRead(a2.heap, a2.slice))
        names == SliceRead(SA, hc.Names)
    IN [heap |-> a3.heap,
        msg |-> IF Len(names) > 0 THEN <<"[">> \o JoinDots(names) \o <<"] ">> \o rm ELSE rm,
        attrs |-> a3.slice]

\* Handler.Enabled of handler.go.
HandlerEnabled(S, h, level) ==
    IF h.level.set /\ h.level.val < level THEN FALSE
    ELSE S[h.next].minLevel <= level

\* Handler.Enabled of the variant whose level is a slog.Leveler.
HandlerEnabledLeveler(S, h, level) ==
    IF h.level.set /\ level < h.level.val THEN FALSE
    ELSE S[h.next].minLevel <= level

NoLevel == [set |-> FALSE, val |-> 0]

\* NewHandlerWithOptions(next, nil)
NewHandler(next) ==
    [next |-> next, level |-> NoLevel, Names |-> NilSlice, Attrs |-> NilNode]

\* A nil slog.Handler and a nil *Handler.
NilSink == 0
NilHandlerPtr == 0

\* Mutant: NewHandlerWithOptions without the check of next.
NewHandlerWithOptionsNoCheck(HS, next) ==
    [panicked |-> FALSE, handlers |-> Append(HS, NewHandler(next)), h |-> Len(HS) + 1]

\* NewHandlerWithOptions with its check of next: a panic returns nothing.
\* NewHandler and the function NewMiddleware returns call it.
NewHandlerWithOptions(HS, next) ==
    IF next = NilSink
    THEN [panicked |-> TRUE, handlers |-> HS, h |-> NilHandlerPtr]
    ELSE [panicked |-> FALSE, handlers |-> Append(HS, NewHandler(next)), h |-> Len(HS) + 1]

\* slices.Clone(s): append(s[:0:0], s...)
SlicesCloneStr(SA, s) == GoAppendZ(SA, NilSlice, SliceRead(SA, s), "")

\* Mutant: Clone copies the HandlerContext and shares its Names slice.
CloneShallow(SA, h) == [strs |-> SA, h |-> h]

\* Handler.Clone: a copy of the Handler and of its HandlerContext, with the
\* Names slice cloned.
Clone(SA, h) ==
    LET c == SlicesCloneStr(SA, h.Names)
    IN [strs |-> c.heap, h |-> [h EXCEPT !.Names = c.slice]]

\* Handler.withGroup
withGroup(SA, N, h, name) ==
    LET c == Clone(SA, h)
        g == GroupOrAttrsWithGroup(N, h.Attrs, name)
    IN [strs |-> c.strs, nodes |-> g.nodes, h |-> [c.h EXCEPT !.Attrs = g.node]]

\* Handler.withAttrs
withAttrs(SA, N, h, attrs) ==
    LET c == Clone(SA, h)
        g == GroupOrAttrsWithAttrs(N, h.Attrs, attrs)
    IN [strs |-> c.strs, nodes |-> g.nodes, h |-> [c.h EXCEPT !.Attrs = g.node]]

\* Handler.WithLevel
WithLevel(SA, h, level) ==
    LET c == Clone(SA, h)
    IN [strs |-> c.strs, h |-> [c.h EXCEPT !.level = [set |-> TRUE, val |-> level]]]

\* The handler of the version whose context holds one name: NewHandler,
\* Handler.Named (a copy of the handler and of its context, the name set) and
\* DefaultHandleFunc, which composes the attributes by the same statements and
\* tests the name.
NewHandlerName(next) ==
    [next |-> next, level |-> NoLevel, Name |-> "", Attrs |-> NilNode]

Named(h, name) == [h EXCEPT !.Name = name]

DefaultHandleFuncName(H, SA, N, C, ctx, hc, rm, attrs0) ==
    LET r == DefaultHandleFunc(H, SA, N, C, ctx, [Names |-> NilSlice, Attrs |-> hc.Attrs],
                               rm, attrs0)
    IN [heap |-> r.heap,
        msg |-> IF hc.Name # "" THEN <<"[", hc.Name, "] ">> \o rm ELSE rm,
        attrs |-> r.attrs]

\* ---------------------------------------------------------------- option.go

\* The option WithName(name) applied to a logger whose handler is h.
WithName(SA, h, name) ==
    IF name = "" THEN [strs |-> SA, h |-> h]
    ELSE LET c == Clone(SA, h)
             a == GoAppendZ(c.strs, c.h.Names, <<name>>, "")
             k == KeepLast(Len(SA), a.heap, a.slice)
         IN [strs |-> k.heap, h |-> [c.h EXCEPT !.Names = k.slice]]

\* The option WithNameOverride(name).
WithNameOverride(SA, h, name) ==
    IF name = "" THEN [strs |-> SA, h |-> h]
    ELSE LET c == Clone(SA, h)
             lit == MakeSlice(c.strs, <<name>>)
             k == KeepLast(Len(SA), lit.heap, lit.slice)
         IN [strs |-> k.heap, h |-> [c.h EXCEPT !.Names = k.slice]]

\* An option is applied to the logger's handler.
NameOpt(name) == [opt |-> "name", name |-> name, level |-> 0]
OverrideOpt(name) == [opt |-> "override", name |-> name, level |-> 0]
LevelOpt(level) == [opt |-> "level", name |-> "", level |-> level]

ApplyOption(SA, h, o) ==
    IF o.opt = "name" THEN WithName(SA, h, o.name)
    ELSE IF o.opt = "override" THEN WithNameOverride(SA, h, o.name)
    ELSE WithLevel(SA, h, o.level)

\* Logger.WithOptions: the logger is copied and the options are applied in order.
RECURSIVE WithOptions(_, _, _)
WithOptions(SA, h, opts) ==
    IF Len(opts) = 0 THEN [strs |-> SA, h |-> h]
    ELSE LET r == ApplyOption(SA, h, opts[1])
         IN WithOptions(r.strs, r.h, Tail(opts))

\* ---------------------------------------------------------------- Logger

\* The Logger struct as New fills it before the options are applied.
NewLogger(h) == [handler |-> h, addCaller |-> TRUE, callerSkip |-> 0]

\* New(h, options...): a nil handler panics; each option replaces the logger's
\* handler by the one it derives.
New(SA, HS, LS, h, opts) ==
    IF h = NilHandlerPtr
    THEN [panicked |-> TRUE, strs |-> SA, handlers |-> HS, loggers |-> LS, l |-> 0]
    ELSE IF Len(opts) = 0
    THEN [panicked |-> FALSE, strs |-> SA, handlers |-> HS,
          loggers |-> Append(LS, NewLogger(h)), l |-> Len(LS) + 1]
    ELSE LET r == WithOptions(SA, HS[h], opts)
         IN [panicked |-> FALSE, strs |-> r.strs, handlers |-> Append(HS, r.h),
             loggers |-> Append(LS, NewLogger(Len(HS) + 1)), l |-> Len(LS) + 1]

\* Logger.With(args...): the receiver when there is no argument, else a copy
\* of the logger around the handler withAttrs returns.
LoggerWith(H, SA, N, HS, LS, l, args) ==
    IF Len(args) = 0
    THEN [heap |-> H, strs |-> SA, nodes |-> N, handlers |-> HS, loggers |-> LS, l |-> l]
    ELSE LET a == ArgsToAttrSlice(H, args)
             r == withAttrs(SA, N, HS[LS[l].handler], a.slice)
         IN [heap |-> a.heap, strs |-> r.strs, nodes |-> r.nodes,
             handlers |-> Append(HS, r.h),
             loggers |-> Append(LS, [LS[l] EXCEPT !.handler = Len(HS) + 1]),
             l |-> Len(LS) + 1]

\* Logger.WithGroup(name): the receiver when the name is empty.
LoggerWithGroup(SA, N, HS, LS, l, name) ==
    IF name = ""
    THEN [strs |-> SA, nodes |-> N, handlers |-> HS, loggers |-> LS, l |-> l]
    ELSE LET r == withGroup(SA, N, HS[LS[l].handler], name)
         IN [strs |-> r.strs, nodes |-> r.nodes, handlers |-> Append(HS, r.h),
             loggers |-> Append(LS, [LS[l] EXCEPT !.handler = Len(HS) + 1]),
             l |-> Len(LS) + 1]

\* Handler.WithLevel of the version whose level is a slog.Leveler: a copy of
\* the handler and of its context, the level set.
WithLevelName(h, level) == [h EXCEPT !.level = [set |-> TRUE, val |-> level]]

\* Logger.Enabled: the answer of the logger's handler, in the version built.
LoggerEnabled(B, S, h, level) ==
    IF B = BuildName THEN HandlerEnabledLeveler(S, h, level) ELSE HandlerEnabled(S, h, level)

\* Mutant: the call goes on whatever Enabled answers.
LogPathNoGate(B, S, h, level) ==
    LET en == LoggerEnabled(B, S, h, level)
    IN [enabled |-> en, record |-> TRUE, handle |-> TRUE]

\* Logger.log, Logger.logAttrs and SugaredLogger.log: the statements a call
\* at this level runs. A disabled level returns before slog.NewRecord.
LogPath(B, S, h, level) ==
    LET en == LoggerEnabled(B, S, h, level)
    IN [enabled |-> en, record |-> en, handle |-> en]

\* getMessage(template, fmtArgs), a message being the strings it is made of.
getMessage(template, fmtArgs) ==
    IF Len(fmtArgs) = 0 THEN <<template>>
    ELSE IF template # "" THEN <<"Sprintf", template>> \o [i \in 1..Len(fmtArgs) |-> fmtArgs[i].S]
    ELSE IF Len(fmtArgs) = 1 /\ fmtArgs[1].T = "string" THEN <<fmtArgs[1].S>>
    ELSE <<"Sprintln">> \o [i \in 1..Len(fmtArgs) |-> fmtArgs[i].S]

\* ---------------------------------------------------------------- redirect

\* The writer os.Stderr.
Stderr == [kind |-> "os.Stderr", h |-> 0, level |-> 0, capturePC |-> FALSE]

\* flags&(log.Lshortfile|log.Llongfile) != 0, Llongfile being 8 and Lshortfile 16.
HasFileFlag(flags) == (flags \div 8) % 4 # 0

\* Mutant: the flags and the prefix are read after they were reset.
RedirectStdLogAtLateCapture(L, h, level) ==
    [L EXCEPT !.flags = 0, !.prefix = "",
              !.output = [kind |-> "handlerWriter", h |-> h, level |-> level,
                          capturePC |-> HasFileFlag(L.flags)],
              !.restores = Append(@, [flags |-> 0, prefix |-> ""])]

\* RedirectStdLogAt(logger, level) on the standard logger L, h being the
\* logger's handler: the function returned holds the flags and the prefix read
\* at the start of the call.
RedirectStdLogAt(L, h, level) ==
    [L EXCEPT !.flags = 0, !.prefix = "",
              !.output = [kind |-> "handlerWriter", h |-> h, level |-> level,
                          capturePC |-> HasFileFlag(L.flags)],
              !.restores = Append(@, [flags |-> L.flags, prefix |-> L.prefix])]

\* The function RedirectStdLogAt returned as the k-th.
Restore(L, k) ==
    [L EXCEPT !.flags = L.restores[k].flags, !.prefix = L.restores[k].prefix,
              !.output = Stderr]

\* handlerWriter.Write: whether the line written is handed to the handler.
WriterPath(B, S, h, level) ==
    LET en == LoggerEnabled(B, S, h, level) IN [enabled |-> en, handle |-> en]

\* ---------------------------------------------------------------- Handler.Handle

\* The first half of Handler.Handle: the record's attributes are collected
\* into a new slice and handed to the handle function.
HandleCompose(H, SA, N, C, h, ctx, rm, rattrs) ==
    LET m == MakeSlice(H, rattrs)
    IN DefaultHandleFunc(m.heap, SA, N, C, ctx, [Names |-> h.Names, Attrs |-> h.Attrs],
                         rm, m.slice)

HandleComposeName(H, SA, N, C, h, ctx, rm, rattrs) ==
    LET m == MakeSlice(H, rattrs)
    IN DefaultHandleFuncName(m.heap, SA, N, C, ctx, [Name |-> h.Name, Attrs |-> h.Attrs],
                             rm, m.slice)

\* Handler.Handle's first half in the version built.
HandleComposeOf(B, H, SA, N, C, h, ctx, rm, rattrs) ==
    IF B = BuildName THEN HandleComposeName(H, SA, N, C, h, ctx, rm, rattrs)
    ELSE HandleCompose(H, SA, N, C, h, ctx, rm, rattrs)

\* Mutant: the new record does not take the program counter over.
HandlerHandleNoPC(B, H, SA, N, C, S, h, ctx, r) ==
    LET m == HandleComposeOf(B, H, SA, N, C, h, ctx, r.Message, r.front \o SliceRead(H, r.back))
        nr == RecordAddAttrs(m.heap, EmptyRecord,
                             SelectSeq(SliceRead(m.heap, m.attrs), NotEmptyGroup))
        newR == [Time |-> r.Time, Level |-> r.Level, Message |-> m.msg, PC |-> 0,
                 front |-> nr.rec.front, back |-> nr.rec.back]
        nextErr == [nil |-> ~S[h.next].fails, errs |-> IF S[h.next].fails THEN <<h.next>> ELSE <<>>]
    IN [heap |-> nr.heap, msg |-> m.msg, attrs |-> m.attrs,
        calls |-> <<[rec |-> newR, returned |-> nextErr]>>, err |-> nextErr]

\* Mutant: Handle asks the handler's own Enabled first and drops the record.
HandlerHandleGated(B, H, SA, N, C, S, h, ctx, r) ==
    LET m == HandleComposeOf(B, H, SA, N, C, h, ctx, r.Message, r.front \o SliceRead(H, r.back))
        nr == RecordAddAttrs(m.heap, EmptyRecord,
                             SelectSeq(SliceRead(m.heap, m.attrs), NotEmptyGroup))
        newR == [Time |-> r.Time, Level |-> r.Level, Message |-> m.msg, PC |-> r.PC,
                 front |-> nr.rec.front, back |-> nr.rec.back]
        nextErr == [nil |-> ~S[h.next].fails, errs |-> IF S[h.next].fails THEN <<h.next>> ELSE <<>>]
    IN IF ~LoggerEnabled(B, S, h, r.Level)
       THEN [heap |-> H, msg |-> r.Message, attrs |-> NilSlice, calls |-> <<>>,
             err |-> [nil |-> TRUE, errs |-> <<>>]]
       ELSE [heap |-> nr.heap, msg |-> m.msg, attrs |-> m.attrs,
             calls |-> <<[rec |-> newR, returned |-> nextErr]>>, err |-> nextErr]

\* Handler.Handle(ctx, r): the record's attributes are collected, the handle
\* function returns the message and the attributes, a new record is made with
\* the time, the level and the program counter of r, AddAttrs copies the
\* attributes into it (empty groups are dropped), and next.Handle is called
\* with it; its error is returned.
HandlerHandle(B, H, SA, N, C, S, h, ctx, r) ==
    LET m == HandleComposeOf(B, H, SA, N, C, h, ctx, r.Message, r.front \o SliceRead(H, r.back))
        nr == RecordAddAttrs(m.heap, EmptyRecord,
                             SelectSeq(SliceRead(m.heap, m.attrs), NotEmptyGroup))
        newR == [Time |-> r.Time, Level |-> r.Level, Message |-> m.msg, PC |-> r.PC,
                 front |-> nr.rec.front, back |-> nr.rec.back]
        nextErr == [nil |-> ~S[h.next].fails, errs |-> IF S[h.next].fails THEN <<h.next>> ELSE <<>>]
    IN [heap |-> nr.heap, msg |-> m.msg, attrs |-> m.attrs,
        calls |-> <<[rec |-> newR, returned |-> nextErr]>>, err |-> nextErr]

\* The second half: newR.AddAttrs(attrs...) copies the attributes that are not
\* empty groups into the new record, which next.Handle reads.
AddAttrs(H, attrs) == DeepVals(H, SelectSeq(SliceRead(H, attrs), NotEmptyGroup))

\* ---------------------------------------------------------------- multi_handler.go

\* The attribute a mutating sink adds.
MutatedKeys == <<"mutated1", "mutated2", "mutated3", "mutated4", "mutated5">>

\* A slog.Handler value: nil, a sink, or a broadcaster holding a list of them.
\* A sink is told apart by its number and by the WithAttrs and WithGroup calls
\* that derived it (with).
NilHandler == [kind |-> "nil", id |-> 0, handlers |-> <<>>, with |-> <<>>]
SinkHandler(i) == [kind |-> "sink", id |-> i, handlers |-> <<>>, with |-> <<>>]
Broadcaster(hs) == [kind |-> "multi", id |-> 0, handlers |-> hs, with |-> <<>>]

\* One entry of the history of the handlers returned.
Made(op, inputs, of, name, val) ==
    [op |-> op, inputs |-> inputs, of |-> of, name |-> name, val |-> val]

\* Mutant: the loop of MultiHandler keeps nil.
RECURSIVE ValidHandlersKeepNil(_)
ValidHandlersKeepNil(inputs) ==
    IF Len(inputs) = 0 THEN <<>>
    ELSE LET before == ValidHandlersKeepNil(SubSeq(inputs, 1, Len(inputs) - 1))
             handler == inputs[Len(inputs)]
         IN IF handler.kind = "multi" THEN before \o handler.handlers
            ELSE Append(before, handler)

\* The loop of MultiHandler over its inputs: nil is skipped, a broadcaster's
\* sinks are spliced in, anything else is appended.
RECURSIVE ValidHandlers(_)
ValidHandlers(inputs) ==
    IF Len(inputs) = 0 THEN <<>>
    ELSE LET before == ValidHandlers(SubSeq(inputs, 1, Len(inputs) - 1))
             handler == inputs[Len(inputs)]
         IN IF handler.kind = "nil" THEN before
            ELSE IF handler.kind = "multi" THEN before \o handler.handlers
            ELSE Append(before, handler)

MultiHandler(inputs) ==
    LET valid == ValidHandlers(inputs)
    IN IF Len(valid) = 1 THEN valid[1] ELSE Broadcaster(valid)

\* MultiHandler of the version whose multiHandler is the list: nil is skipped.
MultiHandlerSlice(inputs) == Broadcaster(SelectSeq(inputs, LAMBDA h : h.kind # "nil"))

\* WithAttrs and WithGroup of a sink: the handler returned is the sink with the
\* call added to the ones that derived it.
SinkWithAttrs(hd, attrs) == [hd EXCEPT !.with = Append(@, [group |-> "", attrs |-> attrs])]
SinkWithGroup(hd, name) == [hd EXCEPT !.with = Append(@, [group |-> name, attrs |-> <<>>])]

\* multiHandler.WithAttrs, h.handlers[i].WithAttrs being the element's own
\* method (nil is never an element).
RECURSIVE multiWithAttrs(_, _)
multiWithAttrs(h, attrs) ==
    IF h.kind = "sink" THEN SinkWithAttrs(h, attrs)
    ELSE IF h.kind = "nil" THEN h
    ELSE MultiHandler([i \in 1..Len(h.handlers) |-> multiWithAttrs(h.handlers[i], attrs)])

\* multiHandler.WithGroup
RECURSIVE multiWithGroup(_, _)
multiWithGroup(h, name) ==
    IF h.kind = "sink" THEN SinkWithGroup(h, name)
    ELSE IF h.kind = "nil" THEN h
    ELSE IF name = "" THEN h
    ELSE MultiHandler([i \in 1..Len(h.handlers) |-> multiWithGroup(h.handlers[i], name)])

\* The same two of the version whose multiHandler is the list.
RECURSIVE multiWithAttrsSlice(_, _)
multiWithAttrsSlice(h, attrs) ==
    IF h.kind = "sink" THEN SinkWithAttrs(h, attrs)
    ELSE IF h.kind = "nil" THEN h
    ELSE Broadcaster([i \in 1..Len(h.handlers) |-> multiWithAttrsSlice(h.handlers[i], attrs)])

RECURSIVE multiWithGroupSlice(_, _)
multiWithGroupSlice(h, name) ==
    IF h.kind = "sink" THEN SinkWithGroup(h, name)
    ELSE IF h.kind = "nil" THEN h
    ELSE Broadcaster([i \in 1..Len(h.handlers) |-> multiWithGroupSlice(h.handlers[i], name)])

\* Mutant: WithAttrs derives the sinks in the receiver's own list.
DeriveInPlace(M, m, h) == [multis |-> [M EXCEPT ![m] = h], h |-> h]

\* A derivation of the broadcaster M[m] builds its result in a list of its
\* own (make, append): no handler held so far is written.
DeriveNew(M, m, h) == [multis |-> M, h |-> h]

\* Enabled of a constituent sink.
SinkEnabled(S, hd, level) == S[hd.id].minLevel <= level

\* Mutant: Enabled asks that every sink is enabled.
MultiEnabledAll(S, m, level) == \A i \in 1..Len(m.handlers) : SinkEnabled(S, m.handlers[i], level)

\* multiHandler.Enabled
MultiEnabled(S, m, level) == \E i \in 1..Len(m.handlers) : SinkEnabled(S, m.handlers[i], level)

\* Mutant: the loop of Handle returns at the first error.
RECURSIVE MultiHandleLoopStopAtError(_, _, _, _)
MultiHandleLoopStopAtError(S, hs, level, acc) ==
    IF Len(hs) = 0 THEN acc
    ELSE IF SinkEnabled(S, hs[1], level)
    THEN LET got == Append(acc.calls, [sink |-> hs[1].id, level |-> level])
         IN IF S[hs[1].id].fails
            THEN [calls |-> got, errs |-> Append(acc.errs, hs[1].id)]
            ELSE MultiHandleLoopStopAtError(S, Tail(hs), level, [acc EXCEPT !.calls = got])
    ELSE MultiHandleLoopStopAtError(S, Tail(hs), level, acc)

\* Mutant: the loop of Handle does not ask each sink whether it is enabled.
RECURSIVE MultiHandleLoopNoRecheck(_, _, _, _)
MultiHandleLoopNoRecheck(S, hs, level, acc) ==
    IF Len(hs) = 0 THEN acc
    ELSE LET got == Append(acc.calls, [sink |-> hs[1].id, level |-> level])
         IN MultiHandleLoopNoRecheck(S, Tail(hs), level,
                                     [calls |-> got,
                                      errs |-> IF S[hs[1].id].fails
                                               THEN Append(acc.errs, hs[1].id)
                                               ELSE acc.errs])

\* The loop of multiHandler.Handle: every sink enabled for the record's level
\* is handed a clone of the record, and the errors returned are collected. The
\* error of sink i is named by i.
RECURSIVE MultiHandleLoop(_, _, _, _)
MultiHandleLoop(S, hs, level, acc) ==
    IF Len(hs) = 0 THEN acc
    ELSE IF SinkEnabled(S, hs[1], level)
    THEN LET got == Append(acc.calls, [sink |-> hs[1].id, level |-> level])
         IN MultiHandleLoop(S, Tail(hs), level,
                            [calls |-> got,
                             errs |-> IF S[hs[1].id].fails THEN Append(acc.errs, hs[1].id)
                                      ELSE acc.errs])
    ELSE MultiHandleLoop(S, Tail(hs), level, acc)

\* Mutant: only the first error is returned.
errorsJoinFirst(errs) ==
    IF Len(errs) = 0 THEN [nil |-> TRUE, errs |-> <<>>] ELSE [nil |-> FALSE, errs |-> <<errs[1]>>]

\* errors.Join(errs...): nil when there is no error, else an error wrapping
\* all of them.
errorsJoin(errs) ==
    IF Len(errs) = 0 THEN [nil |-> TRUE, errs |-> <<>>] ELSE [nil |-> FALSE, errs |-> errs]

\* The loop of multiHandler.Handle with the record each sink is handed: a sink
\* that mutates adds an attribute named after it to the record it received;
\* every sink keeps its record.
RECURSIVE MultiHandleRecordLoop(_, _, _, _, _)
MultiHandleRecordLoop(H, S, hs, r, acc) ==
    IF Len(hs) = 0 THEN [heap |-> H, calls |-> acc]
    ELSE IF SinkEnabled(S, hs[1], LevelInfo)
    THEN LET c == RecordClone(r)
             a == IF S[hs[1].id].mutates
                  THEN RecordAddAttrs(H, c, <<StringAttr(MutatedKeys[hs[1].id], "yes")>>)
                  ELSE [heap |-> H, rec |-> c]
         IN MultiHandleRecordLoop(a.heap, S, Tail(hs), r,
                                  Append(acc, [sink |-> hs[1].id, level |-> LevelInfo,
                                               rec |-> a.rec]))
    ELSE MultiHandleRecordLoop(H, S, Tail(hs), r, acc)

\* Mutant: the index of the loop is shared by the calls in progress.
MultiHandleIterationSharedIndex(S, hs, G, g, K) ==
    LET e == G[g]
        others == {G[k].i : k \in {k \in 1..Len(G) : G[k].pc = "loop" /\ G[k].i <= Len(hs)}}
        i == CHOOSE x \in others : \A y \in others : y <= x
        hd == hs[i]
    IN IF SinkEnabled(S, hd, e.level)
       THEN [gos |-> [G EXCEPT ![g].i = i + 1,
                               ![g].errs = IF S[hd.id].fails THEN Append(@, hd.id) ELSE @],
             calls |-> Append(K, [sink |-> hd.id, level |-> e.level, rec |-> e.rec])]
       ELSE [gos |-> [G EXCEPT ![g].i = i + 1], calls |-> K]

\* One iteration of the loop of multiHandler.Handle in the call G[g], whose
\* index i and list errs are locals of the call: the sink, if enabled, is
\* handed a clone of the call's record and appends it to what it received.
MultiHandleIteration(S, hs, G, g, K) ==
    LET e == G[g]
        hd == hs[e.i]
    IN IF SinkEnabled(S, hd, e.level)
       THEN [gos |-> [G EXCEPT ![g].i = e.i + 1,
                               ![g].errs = IF S[hd.id].fails THEN Append(@, hd.id) ELSE @],
             calls |-> Append(K, [sink |-> hd.id, level |-> e.level, rec |-> e.rec])]
       ELSE [gos |-> [G EXCEPT ![g].i = e.i + 1], calls |-> K]

\* multiHandler.Handle
MultiHandle(S, m, level) ==
    LET r == MultiHandleLoop(S, m.handlers, level, [calls |-> <<>>, errs |-> <<>>])
    IN [calls |-> r.calls, err |-> errorsJoin(r.errs)]

NoRet == [called |-> FALSE, m |-> 0, level |-> 0, err |-> [nil |-> TRUE, errs |-> <<>>]]

\* ---------------------------------------------------------------- state

\* What a caller can see of a chain: its nodes oldest first, by value.
RECURSIVE ChainOps(_, _, _)
ChainOps(H, N, g) ==
    IF g = NilNode THEN <<>>
    ELSE Append(ChainOps(H, N, N[g].next),
                [group |-> N[g].group, attrs |-> DeepRead(H, N[g].attrs)])

NoOut ==
    [valid |-> FALSE, h |-> 0, ctx |-> 0, level |-> 0, rm |-> <<>>, rattrs |-> <<>>,
     chain |-> <<>>, pre |-> <<>>, app |-> <<>>, msg |-> <<>>, composed |-> <<>>,
     attrs |-> <<>>]

NoEnabled == [valid |-> FALSE, variant |-> "", h |-> 0, level |-> 0, res |-> FALSE]

\* The inputs the model draws: attribute keys, group names and logger names are
\* told apart by the number of the handler or context they are given to.
AttrKeys == <<"a1", "a2", "a3", "a4", "a5", "a6">>
GroupNames == <<"g1", "g2", "g3", "g4", "g5", "g6">>
CtxKeys == <<"x1", "x2", "x3", "x4", "x5", "x6">>
LoggerNames == <<"n1", "n2", "n3", "n4", "n5", "n6">>
MoreNames == <<"m1", "m2", "m3", "m4", "m5", "m6">>
LastNames == <<"k1", "k2", "k3", "k4", "k5", "k6">>
RecordAttrs == {<<>>, <<[Key |-> "c", Kind |-> "String", Str |-> "1", Sub |-> "", Grp |-> <<>>]>>}
RecordKeys == <<"r1", "r2", "r3", "r4">>
Overwritten == StringAttr("z", "9")

ValAttr(a) == [Key |-> a.Key, Kind |-> a.Kind, Str |-> a.Str, Sub |-> a.Sub, Grp |-> <<>>]
HeapAttr(v) == [Key |-> v.Key, Kind |-> v.Kind, Str |-> v.Str, Sub |-> v.Sub, Grp |-> NilSlice]
HeapAttrs(vs) == [i \in 1..Len(vs) |-> HeapAttr(vs[i])]

\* One entry of a handler's derivation history.
Op(op, group, attrs, name, level) ==
    [op |-> op, group |-> group, attrs |-> attrs, name |-> name, level |-> level]

chainVars == <<strArrays, nodes, handlers, hist, held>>
ctxVars == <<ctxs, chist>>
emitVars == <<out, emis, enabled>>
multiVars == <<multis, mhist, rec, calls, ret>>
apiVars == <<converted, made, loggers, logcall, fwd, gos, stdlog, derived>>

NoConv == [done |-> FALSE, args |-> <<>>, attrs |-> <<>>]
NoMade == [valid |-> FALSE]
NoLogcall ==
    [n |-> 0, l |-> 0, api |-> "", level |-> 0, enabled |-> FALSE,
     built |-> 0, handled |-> 0, sunk |-> 0]
NoFwd == [valid |-> FALSE]
NoStdlog ==
    [flags |-> 3, prefix |-> "", output |-> Stderr, restores |-> <<>>, at |-> <<>>,
     last |-> [op |-> "", k |-> 0]]
NoDerived == [valid |-> FALSE, n |-> 0]

InitApi ==
    /\ converted = NoConv
    /\ made = NoMade
    /\ loggers = <<>>
    /\ logcall = NoLogcall
    /\ fwd = NoFwd
    /\ gos = <<>>
    /\ stdlog = NoStdlog
    /\ derived = NoDerived

\* A handler made by NewHandler around sink 1 and the background context.
InitWith(S) ==
    /\ arrays = <<>>
    /\ strArrays = <<>>
    /\ nodes = <<>>
    /\ sinks = S
    /\ handlers = <<NewHandler(1)>>
    /\ hist = << <<>> >>
    /\ ctxs = <<[parent |-> 0, key |-> "", val |-> NilSlice]>>
    /\ chist = <<[pre |-> <<>>, app |-> <<>>]>>
    /\ held = <<>>
    /\ out = NoOut
    /\ emis = <<>>
    /\ enabled = NoEnabled
    /\ build = BuildNames
    /\ multis = <<>>
    /\ mhist = <<>>
    /\ rec = EmptyRecord
    /\ calls = <<>>
    /\ ret = NoRet
    /\ InitApi

Init == InitWith(<<[minLevel |-> LevelInfo, fails |-> FALSE]>>)

Latest == Len(handlers)

\* The caller builds a slice of `n` attributes with `spare` unused capacity,
\* keeps it, and derives a handler from h with it.
DoWithAttrs(h, n, spare) ==
    /\ Len(handlers) < MaxHandlers
    /\ spare <= n
    /\ LET xs == [i \in 1..n |-> StringAttr(AttrKeys[Len(handlers) + 1], "1")]
           arr == xs \o Zeros(spare, ZeroAttr)
           H1 == IF n = 0 THEN arrays ELSE Append(arrays, arr)
           s == IF n = 0 THEN NilSlice
                ELSE [arr |-> Len(arrays) + 1, len |-> n, cap |-> n + spare]
           r == withAttrs(strArrays, nodes, handlers[h], s)
       IN /\ arrays' = H1
          /\ strArrays' = r.strs
          /\ nodes' = r.nodes
          /\ handlers' = Append(handlers, r.h)
          /\ hist' = Append(hist, Append(hist[h], Op("attrs", "", DeepVals(H1, xs), "", 0)))
          /\ held' = IF n = 0 THEN held ELSE Append(held, s)
    /\ UNCHANGED <<ctxVars, emitVars, sinks, build, apiVars, multiVars>>

DoWithGroup(h, name) ==
    /\ Len(handlers) < MaxHandlers
    /\ LET r == withGroup(strArrays, nodes, handlers[h], name)
       IN /\ strArrays' = r.strs
          /\ nodes' = r.nodes
          /\ handlers' = Append(handlers, r.h)
          /\ hist' = Append(hist, Append(hist[h], Op("group", name, <<>>, "", 0)))
    /\ UNCHANGED <<arrays, held, ctxVars, emitVars, sinks, build, apiVars, multiVars>>

DoWithLevel(h, t) ==
    /\ Len(handlers) < MaxHandlers
    /\ LET r == WithLevel(strArrays, handlers[h], t)
       IN /\ strArrays' = r.strs
          /\ handlers' = Append(handlers, r.h)
          /\ hist' = Append(hist, Append(hist[h], Op("level", "", <<>>, "", t)))
    /\ UNCHANGED <<arrays, nodes, held, ctxVars, emitVars, sinks, build, apiVars, multiVars>>

\* The derivations an option stands for.
OptionOp(o) ==
    IF o.opt = "level" THEN <<Op("level", "", <<>>, "", o.level)>>
    ELSE IF o.name = "" THEN <<>>
    ELSE <<Op(o.opt, "", <<>>, o.name, 0)>>

RECURSIVE OptionOps(_)
OptionOps(opts) == IF Len(opts) = 0 THEN <<>> ELSE OptionOp(opts[1]) \o OptionOps(Tail(opts))

\* Logger.WithOptions on the logger whose handler is h.
DoWithOptions(h, opts) ==
    /\ Len(handlers) < MaxHandlers
    /\ LET r == WithOptions(strArrays, handlers[h], opts)
       IN /\ strArrays' = r.strs
          /\ handlers' = Append(handlers, r.h)
          /\ hist' = Append(hist, hist[h] \o OptionOps(opts))
    /\ UNCHANGED <<arrays, nodes, held, ctxVars, emitVars, sinks, build, apiVars, multiVars>>

\* The caller overwrites the first element of a slice it passed to WithAttrs.
CallerOverwrite(i) ==
    /\ Cardinality({j \in 1..Len(held) : arrays[held[j].arr][1] = Overwritten}) < MaxWrites
    /\ arrays[held[i].arr][1] # Overwritten
    /\ arrays' = [arrays EXCEPT ![held[i].arr][1] = Overwritten]
    /\ UNCHANGED <<chainVars, ctxVars, emitVars, sinks, build, apiVars, multiVars>>

\* n key/value pairs, as the arguments of Prepend or Append and as the
\* attributes they stand for.
CtxArgs(c, n) ==
    IF n = 0 THEN <<>>
    ELSE IF n = 1 THEN <<StrArg(CtxKeys[c]), StrArg("1")>>
    ELSE <<StrArg(CtxKeys[c]), StrArg("1"), StrArg(CtxKeys[c]), StrArg("2"),
           StrArg(CtxKeys[c]), StrArg("3")>>

CtxPairs(c, n) ==
    [i \in 1..n |-> [Key |-> CtxKeys[c], Kind |-> "String",
                     Str |-> <<"1", "2", "3">>[i], Sub |-> "", Grp |-> <<>>]]

DoPrepend(c, n) ==
    /\ LET r == Prepend(arrays, ctxs, c, CtxArgs(Len(ctxs) + 1, n))
           p == IF c = NilCtx THEN Background ELSE c
       IN /\ arrays' = r.heap
          /\ ctxs' = r.ctxs
          /\ chist' = Append(chist, [chist[p] EXCEPT !.pre = @ \o CtxPairs(Len(ctxs) + 1, n)])
    /\ UNCHANGED <<chainVars, emitVars, sinks, build, apiVars, multiVars>>

DoAppend(c, n) ==
    /\ LET r == Append_(arrays, ctxs, c, CtxArgs(Len(ctxs) + 1, n))
           p == IF c = NilCtx THEN Background ELSE c
       IN /\ arrays' = r.heap
          /\ ctxs' = r.ctxs
          /\ chist' = Append(chist, [chist[p] EXCEPT !.app = @ \o CtxPairs(Len(ctxs) + 1, n)])
    /\ UNCHANGED <<chainVars, emitVars, sinks, build, apiVars, multiVars>>

\* Handler.Handle as one step: compose, copy into the new record, deliver.
\* The arrays the call allocated are garbage once next.Handle has returned.
DoHandle(h, c, rattrs) ==
    /\ LET r == HandleCompose(arrays, strArrays, nodes, ctxs, handlers[h], c,
                              <<"hello">>, HeapAttrs(rattrs))
       IN /\ arrays' = SubSeq(r.heap, 1, Len(arrays))
          /\ out' = [valid |-> TRUE, h |-> h, ctx |-> c, level |-> LevelInfo,
                     rm |-> <<"hello">>, rattrs |-> rattrs,
                     chain |-> ChainOps(arrays, nodes, handlers[h].Attrs),
                     pre |-> DeepRead(arrays, ExtractPrepended(ctxs, c)),
                     app |-> DeepRead(arrays, ExtractAppended(ctxs, c)),
                     msg |-> r.msg,
                     composed |-> DeepRead(r.heap, r.attrs),
                     attrs |-> AddAttrs(r.heap, r.attrs)]
    /\ UNCHANGED <<chainVars, ctxVars, emis, enabled, sinks, build, apiVars, multiVars>>

\* Handler.Named on the handler h.
DoNamed(h, name) ==
    /\ Len(handlers) < MaxHandlers
    /\ handlers' = Append(handlers, Named(handlers[h], name))
    /\ hist' = Append(hist, Append(hist[h], Op("named", "", <<>>, name, 0)))
    /\ UNCHANGED <<arrays, strArrays, nodes, held, ctxVars, emitVars, sinks, build, apiVars, multiVars>>

\* Handler.Handle of the version whose context holds one name.
DoHandleName(h, c, rattrs) ==
    /\ LET r == HandleComposeName(arrays, strArrays, nodes, ctxs, handlers[h], c,
                                  <<"hello">>, HeapAttrs(rattrs))
       IN /\ arrays' = SubSeq(r.heap, 1, Len(arrays))
          /\ out' = [valid |-> TRUE, h |-> h, ctx |-> c, level |-> LevelInfo,
                     rm |-> <<"hello">>, rattrs |-> rattrs,
                     chain |-> ChainOps(arrays, nodes, handlers[h].Attrs),
                     pre |-> DeepRead(arrays, ExtractPrepended(ctxs, c)),
                     app |-> DeepRead(arrays, ExtractAppended(ctxs, c)),
                     msg |-> r.msg,
                     composed |-> DeepRead(r.heap, r.attrs),
                     attrs |-> AddAttrs(r.heap, r.attrs)]
    /\ UNCHANGED <<chainVars, ctxVars, emis, enabled, sinks, build, apiVars, multiVars>>

\* NewHandler(next), NewHandlerWithOptions(next, opts) or NewMiddleware(opts)(next).
DoNewHandler(fn, next) ==
    /\ Len(handlers) < MaxHandlers
    /\ LET r == NewHandlerWithOptions(handlers, next)
       IN /\ handlers' = r.handlers
          /\ hist' = IF r.panicked THEN hist ELSE Append(hist, <<>>)
          /\ made' = [valid |-> TRUE, fn |-> fn, arg |-> next, panicked |-> r.panicked,
                      result |-> r.h]
    /\ UNCHANGED <<arrays, strArrays, nodes, held, ctxVars, emitVars, sinks, build, multiVars,
                   converted, loggers, logcall, fwd, gos, stdlog, derived>>

\* New(h, opts...)
DoNew(h, opts) ==
    /\ Len(handlers) < MaxHandlers
    /\ Len(loggers) < MaxLoggers
    /\ LET r == New(strArrays, handlers, loggers, h, opts)
       IN /\ strArrays' = r.strs
          /\ handlers' = r.handlers
          /\ hist' = IF Len(r.handlers) > Len(handlers)
                     THEN Append(hist, hist[h] \o OptionOps(opts)) ELSE hist
          /\ loggers' = r.loggers
          /\ made' = [valid |-> TRUE, fn |-> "New", arg |-> h, panicked |-> r.panicked,
                      result |-> r.l]
    /\ UNCHANGED <<arrays, nodes, held, ctxVars, emitVars, sinks, build, multiVars,
                   converted, logcall, fwd, gos, stdlog, derived>>

\* Logger.WithOptions(WithLevel(t)) on logger l.
DoLoggerWithLevel(l, t) ==
    /\ Len(handlers) < MaxHandlers
    /\ Len(loggers) < MaxLoggers
    /\ LET h == loggers[l].handler
           r == IF build = BuildName
                THEN [strs |-> strArrays, h |-> WithLevelName(handlers[h], t)]
                ELSE WithLevel(strArrays, handlers[h], t)
       IN /\ strArrays' = r.strs
          /\ handlers' = Append(handlers, r.h)
          /\ hist' = Append(hist, Append(hist[h], Op("level", "", <<>>, "", t)))
          /\ loggers' = Append(loggers, [loggers[l] EXCEPT !.handler = Len(handlers) + 1])
    /\ UNCHANGED <<arrays, nodes, held, ctxVars, emitVars, sinks, build, multiVars,
                   converted, made, logcall, fwd, gos, stdlog, derived>>

\* The emission methods: Logger.Log and the level methods ("Log"),
\* Logger.LogAttrs ("LogAttrs") and the SugaredLogger methods ("Sugar"), with
\* a context that may be nil.
LogApis == {"Log", "LogAttrs", "Sugar"}

DoLog(l, api, c, level, args) ==
    /\ logcall.n < MaxLogs
    /\ LET h == loggers[l].handler
           ctx == IF c = NilCtx THEN Background ELSE c
           p == LogPath(build, sinks, handlers[h], level)
           conv == IF api = "Log" THEN ArgsToAttrSlice(arrays, args)
                   ELSE IF api = "LogAttrs"
                   THEN MakeSlice(arrays, [i \in 1..Len(args) |-> StringAttr(args[i].K, args[i].S)])
                   ELSE [heap |-> arrays, slice |-> NilSlice]
           rm == IF api = "Sugar" THEN getMessage("", args) ELSE <<"hello">>
           rattrs == SliceRead(conv.heap, conv.slice)
           r == HandleComposeOf(build, conv.heap, strArrays, nodes, ctxs, handlers[h], ctx,
                                rm, rattrs)
       IN /\ logcall' = [n |-> logcall.n + 1, l |-> l, api |-> api, level |-> level,
                         enabled |-> p.enabled,
                         built |-> logcall.built + (IF p.record THEN 1 ELSE 0),
                         handled |-> logcall.handled + (IF p.handle THEN 1 ELSE 0),
                         sunk |-> logcall.sunk + (IF p.handle THEN 1 ELSE 0)]
          /\ arrays' = IF p.handle THEN SubSeq(r.heap, 1, Len(arrays)) ELSE arrays
          /\ out' = IF p.handle
                    THEN [valid |-> TRUE, h |-> h, ctx |-> ctx, level |-> level,
                          rm |-> rm, rattrs |-> DeepVals(conv.heap, rattrs),
                          chain |-> ChainOps(arrays, nodes, handlers[h].Attrs),
                          pre |-> DeepRead(arrays, ExtractPrepended(ctxs, ctx)),
                          app |-> DeepRead(arrays, ExtractAppended(ctxs, ctx)),
                          msg |-> r.msg,
                          composed |-> DeepRead(r.heap, r.attrs),
                          attrs |-> AddAttrs(r.heap, r.attrs)]
                    ELSE out
    /\ UNCHANGED <<chainVars, ctxVars, emis, enabled, sinks, build, multiVars,
                   converted, made, loggers, fwd, gos, stdlog, derived>>

\* GroupOrAttrs.WithGroup(name) on node g, nil included.
DoNodeWithGroup(g, name) ==
    /\ Len(nodes) < MaxNodes
    /\ derived.n < MaxDerivations
    /\ LET r == GroupOrAttrsWithGroup(nodes, g, name)
       IN /\ nodes' = r.nodes
          /\ derived' = [valid |-> TRUE, n |-> derived.n + 1, fn |-> "GroupOrAttrs.WithGroup", recv |-> g,
                         result |-> r.node, noop |-> name = "",
                         grew |-> Len(r.nodes) > Len(nodes)]
    /\ UNCHANGED <<arrays, strArrays, handlers, hist, held, ctxVars, emitVars, sinks, build,
                   multiVars, converted, made, loggers, logcall, fwd, gos, stdlog>>

\* GroupOrAttrs.WithAttrs(attrs) on node g: attrs is nil, an empty slice with
\* capacity (n = 0, spare = 1) or a slice of n attributes.
DoNodeWithAttrs(g, n, spare) ==
    /\ Len(nodes) < MaxNodes
    /\ derived.n < MaxDerivations
    /\ LET arr == [i \in 1..n |-> StringAttr(AttrKeys[Len(nodes) + 1], "1")]
                      \o Zeros(spare, ZeroAttr)
           H1 == IF n + spare = 0 THEN arrays ELSE Append(arrays, arr)
           a == IF n + spare = 0 THEN NilSlice
                ELSE [arr |-> Len(arrays) + 1, len |-> n, cap |-> n + spare]
           r == GroupOrAttrsWithAttrs(nodes, g, a)
       IN /\ arrays' = H1
          /\ nodes' = r.nodes
          /\ derived' = [valid |-> TRUE, n |-> derived.n + 1, fn |-> "GroupOrAttrs.WithAttrs", recv |-> g,
                         result |-> r.node, noop |-> n = 0,
                         grew |-> Len(r.nodes) > Len(nodes)]
    /\ UNCHANGED <<strArrays, handlers, hist, held, ctxVars, emitVars, sinks, build,
                   multiVars, converted, made, loggers, logcall, fwd, gos, stdlog>>

\* Logger.With(args...) on logger l.
DoLoggerWith(l, args) ==
    /\ Len(handlers) < MaxHandlers
    /\ derived.n < MaxDerivations
    /\ Len(loggers) < MaxLoggers
    /\ LET r == LoggerWith(arrays, strArrays, nodes, handlers, loggers, l, args)
           h == loggers[l].handler
       IN /\ arrays' = r.heap
          /\ strArrays' = r.strs
          /\ nodes' = r.nodes
          /\ handlers' = r.handlers
          /\ loggers' = r.loggers
          /\ hist' = IF Len(r.handlers) > Len(handlers)
                     THEN Append(hist, Append(hist[h],
                              Op("attrs", "", DeepRead(r.heap, r.nodes[Len(r.nodes)].attrs), "", 0)))
                     ELSE hist
          /\ derived' = [valid |-> TRUE, n |-> derived.n + 1, fn |-> "Logger.With", recv |-> l, result |-> r.l,
                         noop |-> Len(args) = 0,
                         grew |-> Len(r.loggers) > Len(loggers) \/ Len(r.handlers) > Len(handlers)
                                      \/ Len(r.nodes) > Len(nodes)]
    /\ UNCHANGED <<held, ctxVars, emitVars, sinks, build, multiVars,
                   converted, made, logcall, fwd, gos, stdlog>>

\* Logger.WithGroup(name) on logger l.
DoLoggerWithGroup(l, name) ==
    /\ Len(handlers) < MaxHandlers
    /\ derived.n < MaxDerivations
    /\ Len(loggers) < MaxLoggers
    /\ LET r == LoggerWithGroup(strArrays, nodes, handlers, loggers, l, name)
           h == loggers[l].handler
       IN /\ strArrays' = r.strs
          /\ nodes' = r.nodes
          /\ handlers' = r.handlers
          /\ loggers' = r.loggers
          /\ hist' = IF Len(r.handlers) > Len(handlers)
                     THEN Append(hist, Append(hist[h], Op("group", name, <<>>, "", 0)))
                     ELSE hist
          /\ derived' = [valid |-> TRUE, n |-> derived.n + 1, fn |-> "Logger.WithGroup", recv |-> l, result |-> r.l,
                         noop |-> name = "",
                         grew |-> Len(r.loggers) > Len(loggers) \/ Len(r.handlers) > Len(handlers)
                                      \/ Len(r.nodes) > Len(nodes)]
    /\ UNCHANGED <<arrays, held, ctxVars, emitVars, sinks, build, multiVars,
                   converted, made, logcall, fwd, gos, stdlog>>

\* A goroutine builds a record of its own and calls Handle of broadcaster m.
GoHandle(m, level) ==
    /\ Len(gos) < MaxGos
    /\ multis[m].kind = "multi"
    /\ gos' = Append(gos, [pc |-> "loop", m |-> m, i |-> 1, errs |-> <<>>, level |-> level,
                           rec |-> Len(gos) + 1, ret |-> errorsJoin(<<>>)])
    /\ UNCHANGED <<arrays, chainVars, ctxVars, emitVars, sinks, build, multiVars,
                   converted, made, loggers, logcall, fwd, stdlog, derived>>

\* The call of goroutine g runs one iteration of its loop.
GoIterate(g) ==
    /\ gos[g].pc = "loop"
    /\ gos[g].i <= Len(multis[gos[g].m].handlers)
    /\ LET r == MultiHandleIteration(sinks, multis[gos[g].m].handlers, gos, g, calls)
       IN /\ gos' = r.gos
          /\ calls' = r.calls
    /\ UNCHANGED <<arrays, chainVars, ctxVars, emitVars, sinks, build, multis, mhist, rec, ret,
                   converted, made, loggers, logcall, fwd, stdlog, derived>>

\* The loop of goroutine g's call is over: errors.Join(errs...) is returned.
GoReturn(g) ==
    /\ gos[g].pc = "loop"
    /\ gos[g].i > Len(multis[gos[g].m].handlers)
    /\ gos' = [gos EXCEPT ![g].pc = "done", ![g].ret = errorsJoin(gos[g].errs)]
    /\ UNCHANGED <<arrays, chainVars, ctxVars, emitVars, sinks, build, multiVars,
                   converted, made, loggers, logcall, fwd, stdlog, derived>>

\* RedirectStdLogAt(logger l, level); `at` keeps what the standard logger's
\* flags and prefix were when the call was made.
DoRedirect(l, level) ==
    /\ Len(stdlog.restores) < MaxRedirects
    /\ stdlog' = [RedirectStdLogAt(stdlog, loggers[l].handler, level) EXCEPT
                     !.at = Append(@, [flags |-> stdlog.flags, prefix |-> stdlog.prefix]),
                     !.last = [op |-> "redirect", k |-> Len(stdlog.restores) + 1]]
    /\ UNCHANGED <<arrays, chainVars, ctxVars, emitVars, sinks, build, multiVars,
                   converted, made, loggers, logcall, fwd, gos, derived>>

\* A call of the k-th function returned.
DoRestore(k) ==
    /\ stdlog' = [Restore(stdlog, k) EXCEPT !.last = [op |-> "restore", k |-> k]]
    /\ UNCHANGED <<arrays, chainVars, ctxVars, emitVars, sinks, build, multiVars,
                   converted, made, loggers, logcall, fwd, gos, derived>>

\* log.Print while the standard logger writes to a handlerWriter: Write asks
\* the handler's Enabled and hands a record to its Handle.
DoStdPrint ==
    /\ stdlog.output.kind = "handlerWriter"
    /\ LET w == stdlog.output
           p == WriterPath(build, sinks, handlers[w.h], w.level)
           r == HandleComposeOf(build, arrays, strArrays, nodes, ctxs, handlers[w.h], Background,
                                <<"printed">>, <<>>)
       IN /\ arrays' = IF p.handle THEN SubSeq(r.heap, 1, Len(arrays)) ELSE arrays
          /\ out' = IF p.handle
                    THEN [valid |-> TRUE, h |-> w.h, ctx |-> Background, level |-> w.level,
                          rm |-> <<"printed">>, rattrs |-> <<>>,
                          chain |-> ChainOps(arrays, nodes, handlers[w.h].Attrs),
                          pre |-> DeepRead(arrays, ExtractPrepended(ctxs, Background)),
                          app |-> DeepRead(arrays, ExtractAppended(ctxs, Background)),
                          msg |-> r.msg,
                          composed |-> DeepRead(r.heap, r.attrs),
                          attrs |-> AddAttrs(r.heap, r.attrs)]
                    ELSE out
    /\ UNCHANGED <<chainVars, ctxVars, emis, enabled, sinks, build, multiVars, apiVars>>

\* A call of Handler.Enabled, of handler.go and of the slog.Leveler variant.
DoEnabled(h, l) ==
    /\ enabled' = [valid |-> TRUE, variant |-> "handler.go", h |-> h, level |-> l,
                   res |-> HandlerEnabled(sinks, handlers[h], l)]
    /\ UNCHANGED <<arrays, chainVars, ctxVars, out, emis, sinks, build, apiVars, multiVars>>

DoEnabledLeveler(h, l) ==
    /\ enabled' = [valid |-> TRUE, variant |-> "leveler", h |-> h, level |-> l,
                   res |-> HandlerEnabledLeveler(sinks, handlers[h], l)]
    /\ UNCHANGED <<arrays, chainVars, ctxVars, out, emis, sinks, build, apiVars, multiVars>>

\* Handler.Handle in two steps, for calls that overlap. The first runs up to the
\* return of the handle function: the composed slice is a local of the call.
EmitCompose(h, c) ==
    /\ Len(emis) < MaxEmis
    /\ LET rattrs == <<StringAttr(RecordKeys[Len(emis) + 1], "1")>>
           r == HandleCompose(arrays, strArrays, nodes, ctxs, handlers[h], c, <<"hello">>, rattrs)
       IN /\ arrays' = r.heap
          /\ emis' = Append(emis, [pc |-> "composed", h |-> h, ctx |-> c,
                                   rattrs |-> DeepVals(arrays, rattrs),
                                   attrs |-> r.attrs, delivered |-> <<>>])
    /\ UNCHANGED <<chainVars, ctxVars, out, enabled, sinks, build, apiVars, multiVars>>

\* The second step: newR.AddAttrs(attrs...) reads the composed slice and
\* next.Handle receives the new record.
EmitDeliver(e) ==
    /\ emis[e].pc = "composed"
    /\ emis' = [emis EXCEPT ![e].pc = "done", ![e].delivered = AddAttrs(arrays, emis[e].attrs)]
    /\ UNCHANGED <<arrays, chainVars, ctxVars, out, enabled, sinks, build, apiVars, multiVars>>

\* MultiHandler(inputs...)
DoMultiHandler(inputs) ==
    /\ Len(multis) < MaxMultis
    /\ multis' = Append(multis, MultiHandler(inputs))
    /\ mhist' = Append(mhist, Made("MultiHandler", inputs, 0, "", MultiHandler(inputs)))
    /\ UNCHANGED <<arrays, chainVars, ctxVars, emitVars, sinks, build, apiVars, rec, calls, ret>>

\* Handle of the broadcaster multis[m] with a record of the given level;
\* `calls` is what the sinks received during the call.
DoMultiHandle(m, level) ==
    /\ multis[m].kind = "multi"
    /\ LET r == MultiHandle(sinks, multis[m], level)
       IN /\ calls' = r.calls
          /\ ret' = [called |-> TRUE, m |-> m, level |-> level, err |-> r.err]
    /\ UNCHANGED <<arrays, chainVars, ctxVars, emitVars, sinks, build, apiVars, multis, mhist, rec>>

\* The caller adds n attributes to its record.
FieldKeys == <<"f1", "f2", "f3", "f4", "f5", "f6", "f7", "f8", "f9", "f10">>

DoRecordAddAttrs(n) ==
    /\ ~ret.called
    /\ Len(rec.front) + rec.back.len + n <= MaxRecAttrs
    /\ LET have == Len(rec.front) + rec.back.len
           r == RecordAddAttrs(arrays, rec, [i \in 1..n |-> StringAttr(FieldKeys[have + i], "1")])
           k == KeepLast(Len(arrays) - (IF rec.back.arr = 0 THEN 0 ELSE 1), r.heap, r.rec.back)
       IN /\ arrays' = k.heap
          /\ rec' = [r.rec EXCEPT !.back = k.slice]
    /\ UNCHANGED <<chainVars, ctxVars, emitVars, sinks, build, apiVars, multis, mhist, calls, ret>>

\* Handle of the broadcaster multis[m] with the caller's record, of level Info.
DoMultiHandleRecord(m) ==
    /\ ~ret.called
    /\ multis[m].kind = "multi"
    /\ LET r == MultiHandleRecordLoop(arrays, sinks, multis[m].handlers, rec, <<>>)
       IN /\ arrays' = r.heap
          /\ calls' = r.calls
          /\ ret' = [called |-> TRUE, m |-> m, level |-> LevelInfo,
                     err |-> errorsJoin(<<>>), before |-> RecordRead(arrays, rec)]
    /\ UNCHANGED <<chainVars, ctxVars, emitVars, sinks, build, apiVars, multis, mhist, rec>>

\* MultiHandler(inputs...), of either version.
DoBuild(inputs) ==
    /\ LET h == IF build = BuildSlice THEN MultiHandlerSlice(inputs) ELSE MultiHandler(inputs)
       IN /\ multis' = Append(multis, h)
          /\ mhist' = Append(mhist, Made("MultiHandler", inputs, 0, "", h))
    /\ UNCHANGED <<arrays, chainVars, ctxVars, emitVars, sinks, build, apiVars, rec, calls, ret>>

\* WithAttrs of the broadcaster multis[m], of either version.
DoBuildWithAttrs(m, key) ==
    /\ multis[m].kind = "multi"
    /\ LET r == DeriveNew(multis, m, IF build = BuildSlice
                                     THEN multiWithAttrsSlice(multis[m], <<key>>)
                                     ELSE multiWithAttrs(multis[m], <<key>>))
       IN /\ multis' = Append(r.multis, r.h)
          /\ mhist' = Append(mhist, Made("WithAttrs", <<key>>, m, "", r.h))
    /\ UNCHANGED <<arrays, chainVars, ctxVars, emitVars, sinks, build, apiVars, rec, calls, ret>>

\* WithGroup of the broadcaster multis[m], of either version.
DoBuildWithGroup(m, name) ==
    /\ multis[m].kind = "multi"
    /\ LET r == DeriveNew(multis, m, IF build = BuildSlice
                                     THEN multiWithGroupSlice(multis[m], name)
                                     ELSE multiWithGroup(multis[m], name))
       IN /\ multis' = Append(r.multis, r.h)
          /\ mhist' = Append(mhist, Made("WithGroup", <<>>, m, name, r.h))
    /\ UNCHANGED <<arrays, chainVars, ctxVars, emitVars, sinks, build, apiVars, rec, calls, ret>>

\* Enabled of the broadcaster multis[m].
DoMultiEnabled(m, level) ==
    /\ multis[m].kind = "multi"
    /\ enabled' = [valid |-> TRUE, variant |-> "multi", h |-> m, level |-> level,
                   res |-> MultiEnabled(sinks, multis[m], level)]
    /\ UNCHANGED <<arrays, chainVars, ctxVars, out, emis, sinks, build, apiVars, multiVars>>

\* A run builds a logger and a context and then emits records with them.
Building == ~out.valid /\ ~enabled.valid /\ emis = <<>>

\* Chains, the caller's slices and emission without ambient attributes.
Next ==
    \/ Building /\ \E n \in 0..1, spare \in 0..1 : DoWithAttrs(Latest, n, spare)
    \/ Building /\ \E name \in {"", GroupNames[Latest + 1]} : DoWithGroup(Latest, name)
    \/ \E i \in 1..Len(held) : CallerOverwrite(i)
    \/ \E rattrs \in RecordAttrs : DoHandle(Latest, Background, rattrs)

Spec == Init /\ [][Next]_vars

\* Chains and contexts with ambient attributes.
NextAmbient ==
    \/ Building /\ DoWithAttrs(Latest, 1, 0)
    \/ Building /\ \E name \in {"", GroupNames[Latest + 1]} : DoWithGroup(Latest, name)
    \/ Building /\ Len(ctxs) < MaxCtxs /\ DoPrepend(Len(ctxs), 1)
    \/ Building /\ Len(ctxs) < MaxCtxs /\ DoAppend(Len(ctxs), 1)
    \/ \E c \in 1..Len(ctxs), rattrs \in RecordAttrs : DoHandle(Latest, c, rattrs)

SpecAmbient == Init /\ [][NextAmbient]_vars

\* Level gates over sinks of every minimum level.
InitLevel == \E l \in Levels : InitWith(<<[minLevel |-> l, fails |-> FALSE]>>)

NextLevel ==
    \/ Building /\ \E t \in Levels : DoWithLevel(Latest, t)
    \/ \E h \in 1..Len(handlers), l \in Levels : DoEnabled(h, l)
    \/ \E h \in 1..Len(handlers), l \in Levels : DoEnabledLeveler(h, l)

SpecLevel == InitLevel /\ [][NextLevel]_vars

\* Trees of contexts: any context, or nil, is the parent of the next.
NextCtx ==
    \/ \E c \in 0..Len(ctxs), n \in {0, 1, 3} : Len(ctxs) < MaxCtxTree /\ DoPrepend(c, n)
    \/ \E c \in 0..Len(ctxs), n \in {0, 1, 3} : Len(ctxs) < MaxCtxTree /\ DoAppend(c, n)

SpecCtx == Init /\ [][NextCtx]_vars

\* Trees of loggers: any handler is the parent of the next.
OptionLists(n) ==
    { <<NameOpt(LoggerNames[n])>>,
      <<NameOpt(LoggerNames[n]), NameOpt(MoreNames[n]), NameOpt(LastNames[n])>>,
      <<OverrideOpt(LoggerNames[n])>>,
      <<NameOpt("")>> }

NextDerive ==
    \/ \E h \in 1..Len(handlers) : DoWithAttrs(h, 1, 0)
    \/ \E h \in 1..Len(handlers) : DoWithGroup(h, GroupNames[Len(handlers) + 1])
    \/ \E h \in 1..Len(handlers) : DoWithLevel(h, LevelWarn)
    \/ \E h \in 1..Len(handlers), opts \in OptionLists(Len(handlers) + 1) :
          DoWithOptions(h, opts)

SpecDerive == Init /\ [][NextDerive]_vars

\* Broadcasters over sinks of every level and outcome.
SinkConfigs == [minLevel : {LevelInfo, LevelError}, fails : BOOLEAN]

InitMulti ==
    /\ arrays = <<>>
    /\ strArrays = <<>>
    /\ nodes = <<>>
    /\ \E n \in 0..MaxSinks : sinks \in [1..n -> SinkConfigs]
    /\ handlers = <<>>
    /\ hist = <<>>
    /\ ctxs = <<[parent |-> 0, key |-> "", val |-> NilSlice]>>
    /\ chist = <<[pre |-> <<>>, app |-> <<>>]>>
    /\ held = <<>>
    /\ out = NoOut
    /\ emis = <<>>
    /\ enabled = NoEnabled
    /\ build = BuildStruct
    /\ multis = <<>>
    /\ mhist = <<>>
    /\ rec = EmptyRecord
    /\ calls = <<>>
    /\ ret = NoRet
    /\ InitApi

AllSinks == [i \in 1..Len(sinks) |-> SinkHandler(i)]

NextMulti ==
    \/ \E inputs \in {AllSinks, <<NilHandler>> \o AllSinks} : DoMultiHandler(inputs)
    \/ \E m \in 1..Len(multis), level \in {LevelInfo, LevelError} : DoMultiHandle(m, level)
    \/ \E m \in 1..Len(multis), level \in {LevelInfo, LevelError} : DoMultiEnabled(m, level)

SpecMulti == InitMulti /\ [][NextMulti]_vars

\* Broadcasters over sinks that keep the record they receive, some of them
\* adding an attribute to it first.
InitRecord ==
    /\ arrays = <<>>
    /\ strArrays = <<>>
    /\ nodes = <<>>
    /\ \E n \in 0..MaxSinks :
          sinks \in [1..n -> [minLevel : {LevelInfo}, fails : {FALSE}, mutates : BOOLEAN]]
    /\ handlers = <<>>
    /\ hist = <<>>
    /\ ctxs = <<[parent |-> 0, key |-> "", val |-> NilSlice]>>
    /\ chist = <<[pre |-> <<>>, app |-> <<>>]>>
    /\ held = <<>>
    /\ out = NoOut
    /\ emis = <<>>
    /\ enabled = NoEnabled
    /\ build = BuildStruct
    /\ multis = <<>>
    /\ mhist = <<>>
    /\ rec = EmptyRecord
    /\ calls = <<>>
    /\ ret = NoRet
    /\ InitApi

NextRecord ==
    \/ DoMultiHandler(AllSinks)
    \/ \E n \in {1, 6} : DoRecordAddAttrs(n)
    \/ \E m \in 1..Len(multis) : DoMultiHandleRecord(m)

SpecRecord == InitRecord /\ [][NextRecord]_vars

\* Broadcasters built from nil, two sinks and the handler built last, by either
\* version of MultiHandler, and derived from the handler built last.
InitBuild ==
    /\ arrays = <<>>
    /\ strArrays = <<>>
    /\ nodes = <<>>
    /\ sinks = <<[minLevel |-> LevelInfo, fails |-> FALSE], [minLevel |-> LevelInfo, fails |-> FALSE],
                 [minLevel |-> LevelInfo, fails |-> FALSE]>>
    /\ handlers = <<>>
    /\ hist = <<>>
    /\ ctxs = <<[parent |-> 0, key |-> "", val |-> NilSlice]>>
    /\ chist = <<[pre |-> <<>>, app |-> <<>>]>>
    /\ held = <<>>
    /\ out = NoOut
    /\ emis = <<>>
    /\ enabled = NoEnabled
    /\ build \in {BuildStruct, BuildSlice}
    /\ multis = <<>>
    /\ mhist = <<>>
    /\ rec = EmptyRecord
    /\ calls = <<>>
    /\ ret = NoRet
    /\ InitApi

\* The handlers a caller passes: nil, one of two sinks, or the handler built last.
Passable ==
    {NilHandler, SinkHandler(1), SinkHandler(2)}
        \cup (IF multis = <<>> THEN {} ELSE {multis[Len(multis)]})

InputLists == {<<>>} \cup {<<a>> : a \in Passable} \cup {<<a, b>> : a, b \in Passable}

\* Every element of the broadcaster is a sink.
FlatSinks(h) == \A i \in 1..Len(h.handlers) : h.handlers[i].kind = "sink"

NextFlatten ==
    \/ \E inputs \in InputLists : Len(multis) < MaxBuilt /\ DoBuild(inputs)
    \/ Len(multis) < MaxBuilt /\ multis # <<>>
          /\ DoBuildWithAttrs(Len(multis), AttrKeys[Len(multis) + 1])
    \/ \E name \in {"", GroupNames[Len(multis) + 1]} :
          Len(multis) < MaxBuilt /\ multis # <<>> /\ DoBuildWithGroup(Len(multis), name)
    \/ \E m \in 1..Len(multis) : FlatSinks(multis[m]) /\ DoMultiHandle(m, LevelInfo)

SpecFlatten == InitBuild /\ [][NextFlatten]_vars

\* Broadcasters derived from any broadcaster held, of either version.
NextBranch ==
    \/ \E inputs \in {<<SinkHandler(1), SinkHandler(2)>>,
                        <<SinkHandler(1), SinkHandler(2), SinkHandler(3)>>} :
          Len(multis) < MaxBranches /\ DoBuild(inputs)
    \/ \E m \in 1..Len(multis) :
          Len(multis) < MaxBranches /\ DoBuildWithAttrs(m, AttrKeys[Len(multis) + 1])
    \/ \E m \in 1..Len(multis), name \in {"", GroupNames[Len(multis) + 1]} :
          Len(multis) < MaxBranches /\ DoBuildWithGroup(m, name)

SpecBranch == InitBuild /\ [][NextBranch]_vars

\* Named loggers, of either version of the handler.
InitNamed ==
    /\ arrays = <<>>
    /\ strArrays = <<>>
    /\ nodes = <<>>
    /\ sinks = <<[minLevel |-> LevelInfo, fails |-> FALSE]>>
    /\ build \in {BuildNames, BuildName}
    /\ handlers = <<IF build = BuildName THEN NewHandlerName(1) ELSE NewHandler(1)>>
    /\ hist = << <<>> >>
    /\ ctxs = <<[parent |-> 0, key |-> "", val |-> NilSlice]>>
    /\ chist = <<[pre |-> <<>>, app |-> <<>>]>>
    /\ held = <<>>
    /\ out = NoOut
    /\ emis = <<>>
    /\ enabled = NoEnabled
    /\ multis = <<>>
    /\ mhist = <<>>
    /\ rec = EmptyRecord
    /\ calls = <<>>
    /\ ret = NoRet
    /\ InitApi

NextNamed ==
    \/ \E h \in 1..Len(handlers), opts \in OptionLists(Len(handlers) + 1) :
          build = BuildNames /\ DoWithOptions(h, opts)
    \/ \E h \in 1..Len(handlers), rattrs \in RecordAttrs :
          build = BuildNames /\ DoHandle(h, Background, rattrs)
    \/ \E h \in 1..Len(handlers), name \in {"", LoggerNames[Len(handlers) + 1]} :
          build = BuildName /\ DoNamed(h, name)
    \/ \E h \in 1..Len(handlers), rattrs \in RecordAttrs :
          build = BuildName /\ DoHandleName(h, Background, rattrs)

SpecNamed == InitNamed /\ [][NextNamed]_vars

\* ArgsToAttrSlice on every list of up to MaxArgs arguments that are strings,
\* values of another type or attributes.
ArgValues == {StrArg("k"), StrArg("v"), IntArg("7"), AttrArg("a", "1")}

ArgLists == UNION {[1..n -> ArgValues] : n \in 0..MaxArgs}

InitArgs ==
    /\ arrays = <<>>
    /\ strArrays = <<>>
    /\ nodes = <<>>
    /\ sinks = <<[minLevel |-> LevelInfo, fails |-> FALSE]>>
    /\ handlers = <<NewHandler(1)>>
    /\ hist = << <<>> >>
    /\ ctxs = <<[parent |-> 0, key |-> "", val |-> NilSlice]>>
    /\ chist = <<[pre |-> <<>>, app |-> <<>>]>>
    /\ held = <<>>
    /\ out = NoOut
    /\ emis = <<>>
    /\ enabled = NoEnabled
    /\ build = BuildNames
    /\ multis = <<>>
    /\ mhist = <<>>
    /\ rec = EmptyRecord
    /\ calls = <<>>
    /\ ret = NoRet
    /\ converted \in {[done |-> FALSE, args |-> a, attrs |-> <<>>] : a \in ArgLists}
    /\ made = NoMade
    /\ loggers = <<>>
    /\ logcall = NoLogcall
    /\ fwd = NoFwd
    /\ gos = <<>>
    /\ stdlog = NoStdlog
    /\ derived = NoDerived

DoArgsToAttrSlice ==
    /\ ~converted.done
    /\ LET r == ArgsToAttrSlice(arrays, converted.args)
       IN /\ arrays' = r.heap
          /\ converted' = [converted EXCEPT !.done = TRUE,
                                            !.attrs = DeepRead(r.heap, r.slice)]
    /\ UNCHANGED <<chainVars, ctxVars, emitVars, sinks, build, multiVars,
                   made, loggers, logcall, fwd, gos, stdlog, derived>>

NextArgs == DoArgsToAttrSlice

SpecArgs == InitArgs /\ [][NextArgs]_vars

\* Construction of handlers and loggers around any sink, nil included.
InitMake ==
    /\ arrays = <<>>
    /\ strArrays = <<>>
    /\ nodes = <<>>
    /\ sinks = <<[minLevel |-> LevelInfo, fails |-> FALSE]>>
    /\ handlers = <<>>
    /\ hist = <<>>
    /\ ctxs = <<[parent |-> 0, key |-> "", val |-> NilSlice]>>
    /\ chist = <<[pre |-> <<>>, app |-> <<>>]>>
    /\ held = <<>>
    /\ out = NoOut
    /\ emis = <<>>
    /\ enabled = NoEnabled
    /\ build = BuildNames
    /\ multis = <<>>
    /\ mhist = <<>>
    /\ rec = EmptyRecord
    /\ calls = <<>>
    /\ ret = NoRet
    /\ InitApi

Constructors == {"NewHandler", "NewHandlerWithOptions", "NewMiddleware"}

NextMake ==
    \/ \E fn \in Constructors, next \in {NilSink} \cup (1..Len(sinks)) : DoNewHandler(fn, next)
    \/ \E h \in {NilHandlerPtr, Latest}, opts \in {<<>>, <<LevelOpt(LevelWarn)>>} :
          DoNew(h, opts)
    \/ Latest > 0 /\ DoWithGroup(Latest, GroupNames[Latest + 1])

SpecMake == InitMake /\ [][NextMake]_vars

\* Emissions of loggers with and without a level of their own, over sinks of
\* every minimum level, in either version of the handler.
InitLog ==
    /\ arrays = <<>>
    /\ strArrays = <<>>
    /\ nodes = <<>>
    /\ sinks \in {<<[minLevel |-> m, fails |-> FALSE]>> : m \in {LevelDebug, LevelWarn}}
    /\ build \in {BuildNames, BuildName}
    /\ handlers = <<IF build = BuildName THEN NewHandlerName(1) ELSE NewHandler(1)>>
    /\ hist = << <<>> >>
    /\ ctxs = <<[parent |-> 0, key |-> "", val |-> NilSlice]>>
    /\ chist = <<[pre |-> <<>>, app |-> <<>>]>>
    /\ held = <<>>
    /\ out = NoOut
    /\ emis = <<>>
    /\ enabled = NoEnabled
    /\ multis = <<>>
    /\ mhist = <<>>
    /\ rec = EmptyRecord
    /\ calls = <<>>
    /\ ret = NoRet
    /\ converted = NoConv
    /\ made = NoMade
    /\ loggers = <<NewLogger(1)>>
    /\ logcall = NoLogcall
    /\ fwd = NoFwd
    /\ gos = <<>>
    /\ stdlog = NoStdlog
    /\ derived = NoDerived

LogArgs(api) ==
    IF api = "Log" THEN {<<>>, <<StrArg("k"), StrArg("v")>>}
    ELSE IF api = "LogAttrs" THEN {<<>>, <<AttrArg("k", "v")>>}
    ELSE {<<StrArg("hello")>>}

NextLog ==
    \/ logcall.n = 0 /\ DoLoggerWithLevel(Len(loggers), LevelInfo)
    \/ \E l \in 1..Len(loggers), api \in LogApis, c \in {NilCtx, Background},
          level \in Levels :
          \E args \in LogArgs(api) : DoLog(l, api, c, level, args)

SpecLog == InitLog /\ [][NextLog]_vars

\* Chains built node by node from any node, nil included, and loggers derived
\* by With and WithGroup.
InitNodes ==
    /\ arrays = <<>>
    /\ strArrays = <<>>
    /\ nodes = <<>>
    /\ sinks = <<[minLevel |-> LevelInfo, fails |-> FALSE]>>
    /\ build = BuildNames
    /\ handlers = <<NewHandler(1)>>
    /\ hist = << <<>> >>
    /\ ctxs = <<[parent |-> 0, key |-> "", val |-> NilSlice]>>
    /\ chist = <<[pre |-> <<>>, app |-> <<>>]>>
    /\ held = <<>>
    /\ out = NoOut
    /\ emis = <<>>
    /\ enabled = NoEnabled
    /\ multis = <<>>
    /\ mhist = <<>>
    /\ rec = EmptyRecord
    /\ calls = <<>>
    /\ ret = NoRet
    /\ converted = NoConv
    /\ made = NoMade
    /\ loggers = <<NewLogger(1)>>
    /\ logcall = NoLogcall
    /\ fwd = NoFwd
    /\ gos = <<>>
    /\ stdlog = NoStdlog
    /\ derived = NoDerived

NextNodes ==
    \/ \E g \in {NilNode, Len(nodes)}, name \in {"", GroupNames[Len(nodes) + 1]} :
          DoNodeWithGroup(g, name)
    \/ \E g \in {NilNode, Len(nodes)}, a \in {<<0, 0>>, <<0, 1>>, <<1, 0>>} :
          DoNodeWithAttrs(g, a[1], a[2])
    \/ \E args \in {<<>>, <<StrArg("k"), StrArg("v")>>} : DoLoggerWith(Len(loggers), args)
    \/ \E name \in {"", GroupNames[Len(nodes) + 1]} : DoLoggerWithGroup(Len(loggers), name)

SpecNodes == InitNodes /\ [][NextNodes]_vars

\* Goroutines calling Handle on one broadcaster of two sinks, in either version.
InitGo ==
    /\ arrays = <<>>
    /\ strArrays = <<>>
    /\ nodes = <<>>
    /\ sinks \in [1..2 -> SinkConfigs]
    /\ handlers = <<>>
    /\ hist = <<>>
    /\ ctxs = <<[parent |-> 0, key |-> "", val |-> NilSlice]>>
    /\ chist = <<[pre |-> <<>>, app |-> <<>>]>>
    /\ held = <<>>
    /\ out = NoOut
    /\ emis = <<>>
    /\ enabled = NoEnabled
    /\ build \in {BuildStruct, BuildSlice}
    /\ LET inputs == <<SinkHandler(1), SinkHandler(2)>>
           m == IF build = BuildStruct THEN MultiHandler(inputs) ELSE MultiHandlerSlice(inputs)
       IN /\ multis = <<m>>
          /\ mhist = <<Made("MultiHandler", inputs, 0, "", m)>>
    /\ rec = EmptyRecord
    /\ calls = <<>>
    /\ ret = NoRet
    /\ InitApi

NextGo ==
    \/ GoHandle(1, LevelInfo)
    \/ \E g \in 1..Len(gos) : GoIterate(g)
    \/ \E g \in 1..Len(gos) : GoReturn(g)

SpecGo == InitGo /\ [][NextGo]_vars

\* The standard logger, with any flags and prefix, redirected to a logger and
\* restored, redirections nesting.
InitRedirect ==
    /\ arrays = <<>>
    /\ strArrays = <<>>
    /\ nodes = <<>>
    /\ sinks = <<[minLevel |-> LevelInfo, fails |-> FALSE]>>
    /\ build \in {BuildNames, BuildName}
    /\ handlers = <<IF build = BuildName THEN NewHandlerName(1) ELSE NewHandler(1)>>
    /\ hist = << <<>> >>
    /\ ctxs = <<[parent |-> 0, key |-> "", val |-> NilSlice]>>
    /\ chist = <<[pre |-> <<>>, app |-> <<>>]>>
    /\ held = <<>>
    /\ out = NoOut
    /\ emis = <<>>
    /\ enabled = NoEnabled
    /\ multis = <<>>
    /\ mhist = <<>>
    /\ rec = EmptyRecord
    /\ calls = <<>>
    /\ ret = NoRet
    /\ converted = NoConv
    /\ made = NoMade
    /\ loggers = <<NewLogger(1)>>
    /\ logcall = NoLogcall
    /\ fwd = NoFwd
    /\ gos = <<>>
    /\ \E f \in {0, 3, 19}, p \in {"", "[TEST] "} :
          stdlog = [NoStdlog EXCEPT !.flags = f, !.prefix = p]
    /\ derived = NoDerived

NextRedirect ==
    \/ \E level \in {LevelDebug, LevelInfo} : DoRedirect(1, level)
    \/ \E k \in 1..Len(stdlog.restores) : DoRestore(k)
    \/ DoStdPrint

SpecRedirect == InitRedirect /\ [][NextRedirect]_vars

\* The caller builds a record with n attributes (slog.NewRecord, AddAttrs) and
\* calls Handle of handler h with it; `fwd` keeps the record as it was before
\* the call and as it is after, and what next.Handle was called with, next to
\* what the handler's Enabled answers for the record's level and whether
\* Logger.log and handlerWriter.Write would have called Handle at that level.
DoHandleRecord(h, c, time, level, pc, n) ==
    /\ \E b \in {RecordAddAttrs(arrays, EmptyRecord,
                                  [i \in 1..n |-> StringAttr(FieldKeys[i], "1")])} :
       \E r \in {[Time |-> time, Level |-> level, Message |-> <<"hello">>, PC |-> pc,
                  front |-> b.rec.front, back |-> b.rec.back]} :
       \E x \in {HandlerHandle(build, b.heap, strArrays, nodes, ctxs, sinks, handlers[h], c, r)} :
          fwd' = [valid |-> TRUE, h |-> h, ctx |-> c, input |-> r,
                  before |-> RecordRead(b.heap, r),
                  after |-> RecordRead(x.heap, r),
                  msg |-> x.msg,
                  composed |-> DeepRead(x.heap, x.attrs),
                  received |-> [i \in 1..Len(x.calls) |->
                                   [Time |-> x.calls[i].rec.Time, Level |-> x.calls[i].rec.Level,
                                    Message |-> x.calls[i].rec.Message, PC |-> x.calls[i].rec.PC,
                                    attrs |-> RecordRead(x.heap, x.calls[i].rec),
                                    returned |-> x.calls[i].returned]],
                  err |-> x.err,
                  gate |-> LoggerEnabled(build, sinks, handlers[h], level),
                  viaLogger |-> LogPath(build, sinks, handlers[h], level).handle,
                  viaWriter |-> WriterPath(build, sinks, handlers[h], level).handle]
    /\ UNCHANGED <<arrays, chainVars, ctxVars, emitVars, sinks, build, multiVars,
                   converted, made, loggers, logcall, gos, stdlog, derived>>

\* Handler.WithLevel of the version whose level is a slog.Leveler.
DoWithLevelName(h, t) ==
    /\ Len(handlers) < MaxHandlers
    /\ handlers' = Append(handlers, WithLevelName(handlers[h], t))
    /\ hist' = Append(hist, Append(hist[h], Op("level", "", <<>>, "", t)))
    /\ UNCHANGED <<arrays, strArrays, nodes, held, ctxVars, emitVars, sinks, build, apiVars, multiVars>>

\* Handle called directly with records of any time, level and program
\* counter, on handlers with groups, attributes, names and levels, around a
\* sink that succeeds or fails.
InitForward ==
    /\ arrays = <<>>
    /\ strArrays = <<>>
    /\ nodes = <<>>
    /\ sinks \in {<<[minLevel |-> LevelInfo, fails |-> f]>> : f \in BOOLEAN}
    /\ build \in {BuildNames, BuildName}
    /\ handlers = <<IF build = BuildName THEN NewHandlerName(1) ELSE NewHandler(1)>>
    /\ hist = << <<>> >>
    /\ ctxs = <<[parent |-> 0, key |-> "", val |-> NilSlice]>>
    /\ chist = <<[pre |-> <<>>, app |-> <<>>]>>
    /\ held = <<>>
    /\ out = NoOut
    /\ emis = <<>>
    /\ enabled = NoEnabled
    /\ multis = <<>>
    /\ mhist = <<>>
    /\ rec = EmptyRecord
    /\ calls = <<>>
    /\ ret = NoRet
    /\ InitApi

NextForward ==
    \/ build = BuildNames /\ ~fwd.valid /\ DoWithGroup(Latest, GroupNames[Latest + 1])
    \/ build = BuildNames /\ ~fwd.valid /\ DoWithAttrs(Latest, 1, 0)
    \/ build = BuildNames /\ ~fwd.valid /\ DoWithLevel(Latest, LevelWarn)
    \/ build = BuildName /\ ~fwd.valid /\ DoNamed(Latest, LoggerNames[Latest + 1])
    \/ build = BuildName /\ ~fwd.valid /\ DoWithLevelName(Latest, LevelWarn)
    \/ \E time \in {"t1", "t2"}, level \in {LevelInfo, LevelError}, pc \in {0, 1},
          n \in {0, 1, 6} : DoHandleRecord(Latest, Background, time, level, pc, n)

SpecForward == InitForward /\ [][NextForward]_vars

\* Overlapping Handle calls on one logger with contexts carrying prepended
\* attributes.
NextConc ==
    \/ Building /\ DoWithGroup(Latest, GroupNames[Latest + 1])
    \/ Building /\ Len(ctxs) < MaxCtxs /\ \E n \in {1, 3} : DoPrepend(Len(ctxs), n)
    \/ \E c \in 1..Len(ctxs) : EmitCompose(Latest, c)
    \/ \E e \in 1..Len(emis) : EmitDeliver(e)

SpecConc == Init /\ [][NextConc]_vars

\* ---------------------------------------------------------------- composition

\* The attributes of a composed list that are not groups, in order, each with
\* the keys of the groups it is nested in.
RECURSIVE Leaves(_, _)
Leaves(vs, path) ==
    IF Len(vs) = 0 THEN <<>>
    ELSE (IF vs[1].Kind = "Group"
          THEN Leaves(vs[1].Grp, Append(path, vs[1].Key))
          ELSE <<[path |-> path, key |-> vs[1].Key, str |-> vs[1].Str]>>)
         \o Leaves(Tail(vs), path)

\* The same for a sequence of derivations read oldest first, ending with the
\* record's own attributes: a group opens and is never closed.
RECURSIVE DerivedLeaves(_, _, _)
DerivedLeaves(ops, path, last) ==
    IF Len(ops) = 0 THEN Leaves(last, path)
    ELSE IF ops[1].group # ""
    THEN DerivedLeaves(Tail(ops), Append(path, ops[1].group), last)
    ELSE Leaves(ops[1].attrs, path) \o DerivedLeaves(Tail(ops), path, last)

\* The nesting of a sequence of derivations read oldest first.
RECURSIVE Nest(_, _)
Nest(ops, last) ==
    IF Len(ops) = 0 THEN last
    ELSE IF ops[1].group # ""
    THEN <<[Key |-> ops[1].group, Kind |-> "Group", Str |-> "", Sub |-> "",
            Grp |-> Nest(Tail(ops), last)]>>
    ELSE ops[1].attrs \o Nest(Tail(ops), last)

GroupPath(ops) ==
    LET gs == SelectSeq(ops, LAMBDA o : o.group # "") IN [i \in 1..Len(gs) |-> gs[i].group]

HasGroup(ops) == \E i \in 1..Len(ops) : ops[i].group # ""

Keys(vs) == {vs[i].Key : i \in 1..Len(vs)}

\* C1: with no ambient attributes DefaultHandleFunc returns the chain's
\* attributes oldest first and the record's own last, each inside exactly the
\* groups opened before it, every group being a single entry; when the
\* innermost group is not left empty the result is exactly the nesting of the
\* derivations (withAttrs(a) -> withGroup(g) -> withAttrs(b), record c: [a, g:{b, c}]).
C1_DerivationOrder ==
    (out.valid /\ out.pre = <<>> /\ out.app = <<>>) =>
        LET want == Nest(out.chain, out.rattrs) IN
        /\ Leaves(out.composed, <<>>) = DerivedLeaves(out.chain, <<>>, out.rattrs)
        /\ Len(out.composed) = Len(want)
        /\ \A i \in 1..Len(want) :
              out.composed[i].Key = want[i].Key /\ out.composed[i].Kind = want[i].Kind
        /\ (out.rattrs # <<>> \/ (out.chain # <<>> /\ out.chain[Len(out.chain)].group = ""))
              => out.composed = want

C1_Witness ==
    /\ out.valid /\ out.pre = <<>> /\ out.app = <<>>
    /\ Len(out.chain) = 3
    /\ out.chain[1].group = "" /\ out.chain[2].group # "" /\ out.chain[3].group = ""
    /\ Len(out.rattrs) = 1
    /\ Len(out.composed) = 2
    /\ out.composed[1] = out.chain[1].attrs[1]
    /\ out.composed[2].Key = out.chain[2].group
    /\ out.composed[2].Grp = out.chain[3].attrs \o out.rattrs

\* C2: with a group in the chain, the context's prepended attributes are the
\* first entries of the composed list, at the top level, and occur in no group.
C2_PrependTopLevel ==
    (out.valid /\ out.pre # <<>> /\ HasGroup(out.chain)) =>
        LET L == Leaves(out.composed, <<>>) IN
        /\ Len(out.composed) > Len(out.pre)
        /\ SubSeq(out.composed, 1, Len(out.pre)) = out.pre
        /\ \A i \in 1..Len(L) : L[i].key \in Keys(out.pre) => L[i].path = <<>>
        /\ \A i \in 1..Len(out.composed) :
              (out.composed[i].Kind = "Group" \/ out.composed[i].Key \in Keys(out.rattrs))
                  => i > Len(out.pre)

C2_Witness ==
    /\ out.valid /\ Len(out.pre) = 2 /\ HasGroup(out.chain) /\ out.rattrs # <<>>
    /\ out.chain[1].group = ""
    /\ out.composed[3] = out.chain[1].attrs[1]

\* C3: with a group in the chain, the context's appended attributes are the
\* last attributes of the composed list, right after the record's own, inside
\* the innermost open group, and none is at the top level.
C3_AppendInGroup ==
    (out.valid /\ out.app # <<>> /\ HasGroup(out.chain)) =>
        LET L == Leaves(out.composed, <<>>)
            n == Len(L)
            ka == Len(out.app)
            kr == Len(out.rattrs)
        IN /\ n >= ka + kr
           /\ SubSeq(L, n - ka + 1, n) = Leaves(out.app, GroupPath(out.chain))
           /\ SubSeq(L, n - ka - kr + 1, n - ka) = Leaves(out.rattrs, GroupPath(out.chain))
           /\ \A i \in 1..Len(out.composed) : out.composed[i].Key \notin Keys(out.app)

C3_Witness ==
    /\ out.valid /\ Len(out.app) = 2 /\ out.rattrs # <<>>
    /\ Len(GroupPath(out.chain)) = 2
    /\ out.chain[Len(out.chain)].group = ""

\* C5 (as claimed): what is composed from a chain are the attributes that were
\* passed to WithAttrs at the time of the call.
C5_ChainKeepsPassedAttrs ==
    out.valid =>
        Leaves(out.composed, <<>>) = DerivedLeaves(hist[out.h], <<>>, out.rattrs)

\* C4 (as claimed): with a level t set, Enabled(l) is true exactly when l >= t
\* and the next handler is enabled for l; with no level set it is the next
\* handler's answer.
C4_EnabledIffAtOrAboveAndNext ==
    (enabled.valid /\ enabled.variant = "handler.go") =>
        LET h == handlers[enabled.h]
            nextEnabled == sinks[h.next].minLevel <= enabled.level
        IN enabled.res = ((h.level.set => enabled.level >= h.level.val) /\ nextEnabled)

\* C6: every context returns, for each list, the attributes of the Prepend
\* (Append) calls on its own path from the root, in call order, whatever
\* contexts were made from it or beside it afterwards.
C6_ContextsKeepTheirLists ==
    \A c \in 1..Len(ctxs) :
        /\ DeepRead(arrays, ExtractPrepended(ctxs, c)) = chist[c].pre
        /\ DeepRead(arrays, ExtractAppended(ctxs, c)) = chist[c].app

C6_Witness ==
    \E p, c1, c2 \in 1..Len(ctxs) :
        /\ c1 # c2 /\ ctxs[c1].parent = p /\ ctxs[c2].parent = p
        /\ ctxs[c1].key = "prependKey" /\ ctxs[c2].key = "prependKey"
        /\ ctxs[p].key = "prependKey" /\ ctxs[p].val.cap > ctxs[p].val.len
        /\ Len(chist[c1].pre) = 4 /\ Len(chist[c2].pre) = 4
        /\ chist[c1].pre # chist[c2].pre
        /\ Len(chist[p].pre) = 3

\* The attributes of a composed list that carry a record's key.
RecordLeaves(vs) == SelectSeq(Leaves(vs, <<>>), LAMBDA l : \E i \in 1..Len(RecordKeys) : l.key = RecordKeys[i])

\* C7 (as claimed): the composed list of every emission, and the list its
\* record is delivered with, hold exactly the emission's own record attributes,
\* whatever other emissions with the same context do meanwhile.
C7_EmissionsKeepOwnAttrs ==
    \A e \in 1..Len(emis) :
        LET own == Leaves(emis[e].rattrs, GroupPath(ChainOps(arrays, nodes, handlers[emis[e].h].Attrs)))
        IN /\ RecordLeaves(DeepRead(arrays, emis[e].attrs)) = own
           /\ emis[e].pc = "done" => RecordLeaves(emis[e].delivered) = own

\* The logger names a derivation history determines.
RECURSIVE NamesOf(_)
NamesOf(ops) ==
    IF Len(ops) = 0 THEN <<>>
    ELSE LET o == ops[Len(ops)]
             before == NamesOf(SubSeq(ops, 1, Len(ops) - 1))
         IN IF o.op = "name" THEN Append(before, o.name)
            ELSE IF o.op = "override" THEN <<o.name>>
            ELSE before

\* The level gate a derivation history determines.
RECURSIVE LevelOf(_)
LevelOf(ops) ==
    IF Len(ops) = 0 THEN [set |-> FALSE, val |-> 0]
    ELSE IF ops[Len(ops)].op = "level" THEN [set |-> TRUE, val |-> ops[Len(ops)].level]
    ELSE LevelOf(SubSeq(ops, 1, Len(ops) - 1))

\* The chain a derivation history determines.
ChainOf(ops) ==
    LET cs == SelectSeq(ops, LAMBDA o : o.op = "attrs" \/ (o.op = "group" /\ o.group # ""))
    IN [i \in 1..Len(cs) |-> [group |-> cs[i].group, attrs |-> cs[i].attrs]]

\* A name list as the prefix of a message.
RECURSIVE Dotted(_)
Dotted(names) ==
    IF Len(names) = 0 THEN <<>>
    ELSE IF Len(names) = 1 THEN names
    ELSE <<names[1], ".">> \o Dotted(Tail(names))

TheRecord == <<[Key |-> "c", Kind |-> "String", Str |-> "1", Sub |-> "", Grp |-> <<>>]>>

\* What handler h hands to the sink for a record "hello" with attribute c=1.
Emitted(h) ==
    LET r == HandleCompose(arrays, strArrays, nodes, ctxs, handlers[h], Background,
                           <<"hello">>, HeapAttrs(TheRecord))
    IN [msg |-> r.msg, attrs |-> AddAttrs(r.heap, r.attrs)]

\* C8: every handler, whatever was derived from it or beside it since, has the
\* names, the chain and the level gate of the derivations on its own path from
\* the root, and emits the output they determine.
C8_DerivationsLeaveOthersAlone ==
    \A h \in 1..Len(handlers) :
        LET names == NamesOf(hist[h])
            chain == ChainOf(hist[h])
        IN /\ SliceRead(strArrays, handlers[h].Names) = names
           /\ ChainOps(arrays, nodes, handlers[h].Attrs) = chain
           /\ handlers[h].level = LevelOf(hist[h])
           /\ Emitted(h).msg = (IF names = <<>> THEN <<>> ELSE <<"[">> \o Dotted(names) \o <<"] ">>)
                                   \o <<"hello">>
           /\ Emitted(h).attrs = Nest(chain, TheRecord)

C8_Witness ==
    \E p, c1, c2 \in 1..Len(handlers) :
        /\ c1 < c2 /\ p < c1
        /\ handlers[p].Names.len = 3 /\ handlers[p].Names.cap > 3
        /\ hist[c1] = Append(hist[p], Op("name", "", <<>>, LoggerNames[c1], 0))
        /\ hist[c2] = Append(hist[p], Op("name", "", <<>>, LoggerNames[c2], 0))

\* The sinks of a broadcaster that are enabled for a level, in order.
EnabledSinks(m, level) ==
    LET hs == SelectSeq(multis[m].handlers, LAMBDA hd : sinks[hd.id].minLevel <= level)
    IN [i \in 1..Len(hs) |-> hs[i].id]

\* C9: a Handle call of a broadcaster reaches every sink enabled for the
\* record's level, in order and once each, whether or not a sink before it
\* returned an error.
C9_EveryEnabledSinkReceives ==
    ret.called =>
        /\ Len(calls) = Len(EnabledSinks(ret.m, ret.level))
        /\ \A i \in 1..Len(calls) :
              calls[i] = [sink |-> EnabledSinks(ret.m, ret.level)[i], level |-> ret.level]

C9_Witness ==
    /\ ret.called
    /\ Len(calls) >= 2
    /\ sinks[calls[1].sink].fails
    /\ \E i \in 1..Len(multis[ret.m].handlers) : ~SinkEnabled(sinks, multis[ret.m].handlers[i], ret.level)

\* C10: Handle returns nil exactly when no attempted sink returned an error
\* (also when no sink is enabled), and otherwise an error that holds the error
\* of every attempted sink that failed.
C10_ErrorIffSomeSinkFailed ==
    ret.called =>
        LET failed == SelectSeq(EnabledSinks(ret.m, ret.level), LAMBDA i : sinks[i].fails)
        IN /\ ret.err.nil <=> failed = <<>>
           /\ ret.err.errs = failed

C10_Witness ==
    /\ ret.called
    /\ Len(ret.err.errs) = 2
    /\ Len(calls) = 3

\* C12: a Handle call of a broadcaster hands the record to no sink whose own
\* Enabled is false for the record's level, also when another sink is enabled
\* and so the broadcaster's Enabled is true.
C12_DisabledSinkReceivesNothing ==
    ret.called =>
        /\ \A i \in 1..Len(calls) : sinks[calls[i].sink].minLevel <= ret.level
        /\ \A j \in 1..Len(multis[ret.m].handlers) :
              LET id == multis[ret.m].handlers[j].id
              IN sinks[id].minLevel > ret.level => \A i \in 1..Len(calls) : calls[i].sink # id

C12_Witness ==
    /\ ret.called
    /\ calls # <<>>
    /\ \E j \in 1..Len(multis[ret.m].handlers) :
          sinks[multis[ret.m].handlers[j].id].minLevel > ret.level

\* C13: Enabled of a broadcaster is true exactly when at least one of its
\* sinks is enabled for the level; it is false with all sinks disabled and
\* with no sinks.
C13_EnabledIffAnySink ==
    (enabled.valid /\ enabled.variant = "multi") =>
        LET hs == multis[enabled.h].handlers
        IN enabled.res <=> (\E i \in 1..Len(hs) : sinks[hs[i].id].minLevel <= enabled.level)

C13_Witness ==
    /\ enabled.valid /\ enabled.variant = "multi"
    /\ enabled.res
    /\ \E i \in 1..Len(multis[enabled.h].handlers) :
          sinks[multis[enabled.h].handlers[i].id].minLevel > enabled.level

\* C11: after a Handle call of a broadcaster, the record each sink kept holds
\* the caller's attributes and, after them, only what that sink added itself;
\* the caller's record holds what it held before the call.
C11_EachSinkOwnCopy ==
    ret.called =>
        /\ RecordRead(arrays, rec) = ret.before
        /\ \A i \in 1..Len(calls) :
              RecordRead(arrays, calls[i].rec) =
                  ret.before \o (IF sinks[calls[i].sink].mutates
                                 THEN <<[Key |-> MutatedKeys[calls[i].sink], Kind |-> "String",
                                         Str |-> "yes", Sub |-> "", Grp |-> <<>>]>>
                                 ELSE <<>>)

C11_Witness ==
    /\ ret.called
    /\ Len(calls) >= 2
    /\ sinks[calls[1].sink].mutates /\ sinks[calls[2].sink].mutates
    /\ rec.back.cap > rec.back.len

\* The sinks a handler passed to MultiHandler stands for: a broadcaster's own
\* sinks, the handler itself, or nothing for nil.
SinksOf(h) == IF h.kind = "multi" THEN h.handlers ELSE IF h.kind = "nil" THEN <<>> ELSE <<h>>

RECURSIVE SinksOfAll(_)
SinksOfAll(inputs) ==
    IF Len(inputs) = 0 THEN <<>> ELSE SinksOf(inputs[1]) \o SinksOfAll(Tail(inputs))

\* C14 (as claimed): no broadcaster holds a broadcaster, whether it was
\* returned by MultiHandler, WithAttrs or WithGroup, and the list MultiHandler
\* builds is the sinks of its inputs spliced in input order.
C14_NeverNested ==
    \A k \in 1..Len(multis) :
        /\ multis[k].kind = "multi" =>
              \A i \in 1..Len(multis[k].handlers) : multis[k].handlers[i].kind # "multi"
        /\ mhist[k].op = "MultiHandler" => SinksOf(multis[k]) = SinksOfAll(mhist[k].inputs)

\* C15 (as claimed): MultiHandler returns the one sink that remains, not a
\* broadcaster around it, and no broadcaster holds exactly one sink.
C15_SingleSinkUnwrapped ==
    \A k \in 1..Len(multis) :
        /\ multis[k].kind = "multi" => Len(multis[k].handlers) # 1
        /\ (mhist[k].op = "MultiHandler" /\ Len(SinksOfAll(mhist[k].inputs)) = 1)
              => multis[k] = SinksOfAll(mhist[k].inputs)[1]

\* The sinks of a handler at any depth, and whether nil is held at any depth.
RECURSIVE DeepSinks(_)
DeepSinks(h) ==
    IF h.kind = "multi"
    THEN IF Len(h.handlers) = 0 THEN <<>>
         ELSE DeepSinks(h.handlers[1]) \o DeepSinks([h EXCEPT !.handlers = Tail(@)])
    ELSE IF h.kind = "nil" THEN <<>> ELSE <<h>>

RECURSIVE HoldsNil(_)
HoldsNil(h) ==
    h.kind = "multi" /\ \E i \in 1..Len(h.handlers) :
                           h.handlers[i].kind = "nil" \/ HoldsNil(h.handlers[i])

RECURSIVE DeepSinksAll(_)
DeepSinksAll(inputs) ==
    IF Len(inputs) = 0 THEN <<>> ELSE DeepSinks(inputs[1]) \o DeepSinksAll(Tail(inputs))

\* C16: no broadcaster holds nil; the sinks MultiHandler keeps are the sinks of
\* its inputs that are not nil, in input order; from no input or only nil
\* inputs it returns a broadcaster without sinks, and a Handle call of a
\* broadcaster without sinks returns nil and reaches no sink.
C16_NilDropped ==
    /\ \A k \in 1..Len(multis) :
          /\ ~HoldsNil(multis[k])
          /\ multis[k].kind # "nil"
          /\ mhist[k].op = "MultiHandler" =>
                /\ DeepSinks(multis[k]) = DeepSinksAll(mhist[k].inputs)
                /\ (\A i \in 1..Len(mhist[k].inputs) : mhist[k].inputs[i].kind = "nil")
                      => (multis[k].kind = "multi" /\ multis[k].handlers = <<>>)
    /\ (ret.called /\ multis[ret.m].handlers = <<>>) => (calls = <<>> /\ ret.err.nil)

C16_Witness ==
    /\ ret.called /\ multis[ret.m].handlers = <<>>
    /\ mhist[ret.m].op = "MultiHandler" /\ Len(mhist[ret.m].inputs) = 2
    /\ \E k \in 1..Len(multis) :
          /\ mhist[k].op = "MultiHandler" /\ Len(mhist[k].inputs) = 2
          /\ mhist[k].inputs[1].kind = "nil" /\ mhist[k].inputs[2].kind = "sink"

\* C17: WithAttrs, and WithGroup with a name, of a broadcaster return a
\* broadcaster with as many sinks, the i-th being the i-th sink's own WithAttrs
\* or WithGroup; every handler held stays what it was when it was returned.
C17_DerivedSinkBySink ==
    \A k \in 1..Len(multis) :
        /\ multis[k] = mhist[k].val
        /\ (mhist[k].op = "WithAttrs" \/ (mhist[k].op = "WithGroup" /\ mhist[k].name # "")) =>
              LET from == multis[mhist[k].of].handlers
              IN /\ multis[k].kind = "multi"
                 /\ Len(multis[k].handlers) = Len(from)
                 /\ \A i \in 1..Len(from) :
                       /\ multis[k].handlers[i].kind = "sink"
                       /\ multis[k].handlers[i].id = from[i].id
                       /\ multis[k].handlers[i].with =
                             Append(from[i].with,
                                    IF mhist[k].op = "WithAttrs"
                                    THEN [group |-> "", attrs |-> mhist[k].inputs]
                                    ELSE [group |-> mhist[k].name, attrs |-> <<>>])

C17_Witness ==
    \E k, j \in 1..Len(multis) :
        /\ k # j /\ mhist[k].of = mhist[j].of /\ mhist[k].of # 0
        /\ mhist[k].op = "WithAttrs" /\ mhist[j].op = "WithGroup" /\ mhist[j].name # ""
        /\ Len(multis[mhist[k].of].handlers) = 3

\* C18 (as claimed): WithGroup("") of a broadcaster returns the receiver, no
\* sink having received a WithGroup call, and the attributes added to the
\* result reach every sink with no group before them.
C18_EmptyGroupReturnsReceiver ==
    \A k \in 1..Len(multis) :
        (mhist[k].op = "WithGroup" /\ mhist[k].name = "") =>
            /\ multis[k] = multis[mhist[k].of]
            /\ \A j \in 1..Len(multis) :
                  (mhist[j].op = "WithAttrs" /\ mhist[j].of = k) =>
                      \A i \in 1..Len(multis[j].handlers) :
                          multis[j].handlers[i].with =
                              Append(multis[mhist[k].of].handlers[i].with,
                                     [group |-> "", attrs |-> mhist[j].inputs])

\* The name a handler holds, as the strings it is made of.
NameOf(h) ==
    IF build = BuildName THEN (IF h.Name = "" THEN <<>> ELSE <<h.Name>>)
    ELSE Dotted(SliceRead(strArrays, h.Names))

\* The names given along a derivation that are not empty, in order.
RECURSIVE GivenNames(_)
GivenNames(ops) ==
    IF Len(ops) = 0 THEN <<>>
    ELSE LET o == ops[Len(ops)]
             before == GivenNames(SubSeq(ops, 1, Len(ops) - 1))
         IN IF (o.op = "name" \/ o.op = "named") /\ o.name # "" THEN Append(before, o.name)
            ELSE IF o.op = "override" THEN <<o.name>>
            ELSE before

\* C19: the message handed to the sink is "[" + name + "] " + message when
\* the handler holds a name, and the message itself when it holds none, which
\* is the case of a handler that was given no name or only empty ones.
C19_PrefixIffNamed ==
    out.valid =>
        LET name == NameOf(handlers[out.h])
        IN /\ name # <<>> => out.msg = <<"[">> \o name \o <<"] ">> \o out.rm
           /\ name = <<>> => out.msg = out.rm
           /\ GivenNames(hist[out.h]) = <<>> => out.msg = out.rm

C19_Witness ==
    /\ out.valid
    /\ build = BuildName
    /\ handlers[out.h].Name # ""
    /\ out.msg = <<"[", handlers[out.h].Name, "] ", "hello">>

\* C20 (as claimed): the prefix of the message is made of all the names given
\* along the handler's derivation that are not empty, in the order given and
\* joined by dots.
C20_NamesAccumulate ==
    out.valid =>
        LET given == GivenNames(hist[out.h])
        IN out.msg = (IF given = <<>> THEN <<>> ELSE <<"[">> \o Dotted(given) \o <<"] ">>)
                         \o out.rm

\* The pair a key and an argument make, and the attribute an argument that is
\* a slog.Attr holds.
PairOf(k, x) ==
    [Key |-> k,
     Kind |-> IF x.T = "string" THEN "String" ELSE IF x.T = "int" THEN "Int64" ELSE "Any",
     Str |-> x.S, Sub |-> x.K, Grp |-> <<>>]

RECURSIVE ExpectedPairs(_, _)
ExpectedPairs(args, i) ==
    IF i > Len(args) THEN <<>>
    ELSE IF args[i].T = "attr"
    THEN <<[Key |-> args[i].K, Kind |-> "String", Str |-> args[i].S, Sub |-> "", Grp |-> <<>>]>>
             \o ExpectedPairs(args, i + 1)
    ELSE IF args[i].T = "string" /\ i < Len(args)
    THEN <<PairOf(args[i].S, args[i + 1])>> \o ExpectedPairs(args, i + 2)
    ELSE <<PairOf(badKey, args[i])>> \o ExpectedPairs(args, i + 1)

\* C21: ArgsToAttrSlice returns, reading the arguments from left to right to
\* the last one, an attribute as it is, a string that has a successor paired
\* with that successor whatever its type (both consumed), a lone trailing
\* string as ("!BADKEY", the string) and any other value as ("!BADKEY", the value).
C21_ArgsConvertedLeftToRight ==
    converted.done => converted.attrs = ExpectedPairs(converted.args, 1)

C21_Witness ==
    /\ converted.done
    /\ converted.args = <<StrArg("k"), AttrArg("a", "1"), StrArg("v")>>
    /\ Len(converted.attrs) = 2
    /\ converted.attrs[1].Key = "k"
    /\ converted.attrs[2].Key = badKey
    /\ converted.attrs[2].Str = "v"

\* C22: a constructor given nil panics and returns nothing, and no handler
\* holds a nil next handler and no logger a nil handler.
C22_NoHandlerAroundNil ==
    /\ \A h \in 1..Len(handlers) : handlers[h].next # NilSink
    /\ \A l \in 1..Len(loggers) : loggers[l].handler # NilHandlerPtr
    /\ (made.valid /\ made.arg = 0) => (made.panicked /\ made.result = 0)
    /\ (made.valid /\ made.arg # 0) => (~made.panicked /\ made.result # 0)

C22_Witness ==
    /\ made.valid
    /\ made.fn = "NewHandlerWithOptions"
    /\ made.arg = NilSink
    /\ made.panicked
    /\ Len(handlers) > 0
    /\ Len(loggers) > 0

\* C23: an emission at a level for which the logger's Enabled reports false
\* builds no record, runs no composition and does not call the sink's Handle:
\* what the sink has received stays as it was.
C23_DisabledEmissionDoesNothing ==
    [][(logcall'.n = logcall.n + 1 /\ ~logcall'.enabled) =>
          /\ logcall'.built = logcall.built
          /\ logcall'.handled = logcall.handled
          /\ logcall'.sunk = logcall.sunk
          /\ out' = out
          /\ arrays' = arrays]_vars

C23_Witness ==
    /\ logcall.n = 2
    /\ ~logcall.enabled
    /\ logcall.api = "Log"
    /\ logcall.sunk = 1
    /\ out.valid

\* C24: WithGroup("") and WithAttrs of an empty list return the node they
\* were called on (nil for nil) and make no node, so that no node of the heap
\* is empty; Logger.With() and Logger.WithGroup("") return the logger they
\* were called on and make no logger, handler or node.
C24_NoopReturnsReceiver ==
    /\ (derived.valid /\ derived.noop) => (derived.result = derived.recv /\ ~derived.grew)
    /\ \A i \in 1..Len(nodes) : nodes[i].group # "" \/ nodes[i].attrs.len > 0

C24_Witness ==
    /\ derived.valid
    /\ derived.noop
    /\ derived.fn = "GroupOrAttrs.WithAttrs"
    /\ derived.recv = NilNode
    /\ derived.result = NilNode
    /\ Len(nodes) > 0
    /\ Len(loggers) > 1

\* Whether Prepend (key "prependKey") or Append (key "appendKey") was called
\* on the lineage of context c.
RECURSIVE CalledOn(_, _)
CalledOn(c, key) ==
    IF c = NilCtx THEN FALSE
    ELSE ctxs[c].key = key \/ CalledOn(ctxs[c].parent, key)

\* C25: along every lineage ExtractPrepended returns the attributes of the
\* Prepend calls and ExtractAppended those of the Append calls, in call order;
\* the context a Prepend returns has the appended list of the context it was
\* called on and the context an Append returns has its prepended list; a
\* lineage without a call of one kind returns nil for that kind.
C25_PrependAppendSeparate ==
    \A c \in 1..Len(ctxs) :
        /\ DeepRead(arrays, ExtractPrepended(ctxs, c)) = chist[c].pre
        /\ DeepRead(arrays, ExtractAppended(ctxs, c)) = chist[c].app
        /\ ctxs[c].key = "prependKey" =>
               ExtractAppended(ctxs, c) = ExtractAppended(ctxs, ctxs[c].parent)
        /\ ctxs[c].key = "appendKey" =>
               ExtractPrepended(ctxs, c) = ExtractPrepended(ctxs, ctxs[c].parent)
        /\ ~CalledOn(c, "prependKey") => ExtractPrepended(ctxs, c) = NilSlice
        /\ ~CalledOn(c, "appendKey") => ExtractAppended(ctxs, c) = NilSlice

C25_Witness ==
    \E c \in 1..Len(ctxs) :
        /\ ctxs[c].key = "prependKey"
        /\ ctxs[ctxs[c].parent].key = "appendKey"
        /\ ctxs[ctxs[ctxs[c].parent].parent].key = "prependKey"
        /\ Len(chist[c].pre) = 4
        /\ Len(chist[c].app) = 1
        /\ chist[c].pre[1].Key # chist[c].pre[2].Key

\* How many times sink id has received the record of call g.
Delivered(g, id) ==
    Cardinality({k \in 1..Len(calls) : calls[k].rec = gos[g].rec /\ calls[k].sink = id})

AllGood(m, level) ==
    \A i \in 1..Len(m.handlers) :
        SinkEnabled(sinks, m.handlers[i], level) /\ ~sinks[m.handlers[i].id].fails

\* C26: with all sinks enabled and succeeding, whatever the interleaving of
\* the calls, a call that has returned returned nil and each sink has received
\* its record once; during a call the sinks already passed have received it
\* once and the others not yet; every record received is a call's record; and
\* the broadcaster holds the sinks it was built with.
C26_ConcurrentHandleDeliversOnce ==
    /\ \A g \in 1..Len(gos) :
          LET hs == multis[gos[g].m].handlers
          IN AllGood(multis[gos[g].m], gos[g].level) =>
                /\ gos[g].pc = "done" => (gos[g].ret.nil /\ gos[g].i = Len(hs) + 1)
                /\ \A i \in 1..Len(hs) :
                      Delivered(g, hs[i].id) = IF i < gos[g].i THEN 1 ELSE 0
    /\ \A k \in 1..Len(calls) : calls[k].rec \in 1..Len(gos)
    /\ \A m \in 1..Len(multis) : multis[m] = mhist[m].val

C26_Witness ==
    /\ Len(gos) = 2
    /\ gos[1].pc = "done" /\ gos[2].pc = "done"
    /\ AllGood(multis[1], LevelInfo)
    /\ Len(calls) = 4
    /\ calls[1].rec = 2
    /\ calls[2].rec = 1

\* C27: after a call of the function RedirectStdLogAt returned, the standard
\* logger has the flags and the prefix it had when that RedirectStdLogAt call
\* was made and writes to os.Stderr; after RedirectStdLogAt, until a restore
\* function is called, its flags are 0 and its prefix is empty.
C27_RestoreGivesBackFlagsAndPrefix ==
    /\ stdlog.last.op = "restore" =>
          /\ stdlog.flags = stdlog.at[stdlog.last.k].flags
          /\ stdlog.prefix = stdlog.at[stdlog.last.k].prefix
          /\ stdlog.output = Stderr
    /\ stdlog.last.op = "redirect" =>
          /\ stdlog.flags = 0
          /\ stdlog.prefix = ""
          /\ stdlog.output.kind = "handlerWriter"

C27_Witness ==
    /\ stdlog.last.op = "restore"
    /\ stdlog.flags = 19
    /\ stdlog.prefix = "[TEST] "
    /\ stdlog.output = Stderr
    /\ out.valid

\* What Handle does besides the attributes: next.Handle is called once, with
\* a record of the caller's record's time, level and program counter and of
\* the message the handle function returned; its error is returned; the
\* caller's record is as it was.
ForwardedOnce ==
    /\ Len(fwd.received) = 1
    /\ fwd.received[1].Time = fwd.input.Time
    /\ fwd.received[1].Level = fwd.input.Level
    /\ fwd.received[1].PC = fwd.input.PC
    /\ fwd.received[1].Message = fwd.msg
    /\ fwd.err = fwd.received[1].returned
    /\ fwd.after = fwd.before

IsEmptyGroupVal(a) == a.Kind = "Group" /\ Len(a.Grp) = 0

\* C28 (as claimed): the record next.Handle receives has the attribute list
\* the handle function returned.
C28_ForwardsHandleFuncList ==
    fwd.valid => (ForwardedOnce /\ fwd.received[1].attrs = fwd.composed)

\* C28 (amended): the record next.Handle receives has the attributes the
\* handle function returned that are no empty groups, in the same order.
C28_ForwardsNonEmptyAttrs ==
    fwd.valid =>
        /\ ForwardedOnce
        /\ fwd.received[1].attrs =
               SelectSeq(fwd.composed, LAMBDA a : ~IsEmptyGroupVal(a))

C28_Witness ==
    /\ fwd.valid
    /\ fwd.input.PC = 1
    /\ fwd.input.Time = "t2"
    /\ fwd.input.Level = LevelError
    /\ Len(fwd.before) = 6
    /\ fwd.received[1].PC = 1
    /\ ~fwd.err.nil
    /\ Len(fwd.composed) = 1
    /\ fwd.composed[1].Kind = "Group"
    /\ Len(fwd.received[1].attrs) = 1

\* C29: Handle composes and forwards a record whatever the handler's own
\* Enabled answers for its level; Logger.log and handlerWriter.Write call
\* Handle exactly when Enabled answers true.
C29_HandleIgnoresLevelGate ==
    fwd.valid =>
        /\ Len(fwd.received) = 1
        /\ fwd.received[1].Level = fwd.input.Level
        /\ fwd.received[1].Message = fwd.msg
        /\ fwd.viaLogger = fwd.gate
        /\ fwd.viaWriter = fwd.gate

C29_Witness ==
    /\ fwd.valid
    /\ handlers[fwd.h].level.set
    /\ ~fwd.gate
    /\ ~fwd.viaLogger
    /\ Len(fwd.received) = 1
    /\ Len(fwd.received[1].attrs) = 6

IsGroupNode(nd) == nd.group # "" /\ nd.attrs.len = 0
IsAttrNode(nd) == nd.group = "" /\ nd.attrs.len > 0

\* C30: every node of a chain made by WithGroup and WithAttrs calls is a group
\* node (a name, no attributes) or an attribute node (attributes, no name),
\* and no call changes the group, the attributes or the parent link of a
\* node made before.
C30_NodesOneKindAndFrozen ==
    /\ [](\A i \in 1..Len(nodes) : IsGroupNode(nodes[i]) # IsAttrNode(nodes[i]))
    /\ [][\A i \in 1..Len(nodes) :
             /\ i <= Len(nodes')
             /\ nodes'[i] = nodes[i]
             /\ DeepRead(arrays', nodes'[i].attrs) = DeepRead(arrays, nodes[i].attrs)]_vars

C30_Witness ==
    /\ Len(nodes) = 3
    /\ IsGroupNode(nodes[1])
    /\ IsAttrNode(nodes[2])
    /\ nodes[2].next = 1
    /\ IsGroupNode(nodes[3])
    /\ nodes[3].next = 2
    /\ derived.valid
    /\ derived.fn = "GroupOrAttrs.WithGroup"

====
